---- MODULE Spec2Model ----
(***************************************************************************)
(* A model of cvat-canvas/src/typescript/canvasView.ts (CanvasViewImpl):   *)
(* the object reconciliation (setupObjects and the add/update/delete       *)
(* helpers), the activation of shapes, and the interaction-mode machine    *)
(* driven by notify() and by the completion callbacks of the gesture       *)
(* handlers.                                                               *)
(*                                                                         *)
(* Every method of the view is an operator from a view record to a view    *)
(* record; an action reads the variables into a record (Cur), applies the  *)
(* method and writes the record back (Commit).  A JavaScript exception is  *)
(* the field "thrown": once it is set the rest of the handler is skipped   *)
(* and the mutations done so far stay, as in the program.                  *)
(***************************************************************************)
EXTENDS Integers, Sequences, FiniteSets, TLC

VARIABLES
    mode,           \* controller.mode (get/set mode, lines 100-106)
    cursor,         \* canvas.style.cursor
    objects,        \* controller.objects: the upstream object list
    ctrlActive,     \* controller.activeElement
    activeElement,  \* this.activeElement
    drawnStates,    \* this.drawnStates: clientID -> DrawnState
    svgShapes,      \* this.svgShapes: clientID -> primitive
    svgTexts,       \* this.svgTexts: the clientIDs that have a label primitive
    content,        \* paint order of the top-level primitives in this.content
    drawHidden,     \* this.innerObjectsFlags.drawHidden
    enabled,        \* the gesture handlers that are currently enabled
    gesture,        \* the drag/resize gesture the gesture library is running
    trace,          \* what the last handler did, in order
    thrown,         \* the last handler ended with an exception
    faults,         \* how many handlers have ended with an exception
    lost,           \* how many gestures have ended with no listener left to run
    lastOp,         \* the last operation and whether it repeated the one before
    calc            \* the last evaluation of a geometry helper: its inputs and result

vars == <<mode, cursor, objects, ctrlActive, activeElement, drawnStates, svgShapes,
          svgTexts, content, drawHidden, enabled, gesture, trace, thrown, faults,
          lost, lastOp, calc>>

-----------------------------------------------------------------------------
(* Bounds of the model *)

MaxUpdated == 2     \* 'updated' versions 1..MaxUpdated
MaxPoints == 2      \* point arrays [0,0,10k,10k], k in 1..MaxPoints
MaxElements == 2    \* a skeleton has MaxElements elements
MaxFaults == 1      \* a run is followed until MaxFaults handlers have thrown
MaxEnabled == 2     \* a run is followed while at most MaxEnabled handlers are enabled
MaxLost == 1        \* a run is followed until MaxLost gesture ends have found no listener
Precision == 8      \* significant bits of a number (53 in a JavaScript double)

NULL == 0           \* JavaScript null for a clientID or an attributeID

\* controller.geometry and model.configuration as the view reads them
geometry == [offset |-> 100, scale |-> 1]
configuration == [displayAllText |-> FALSE, forceDisableEditing |-> FALSE]

Modes == {"IDLE", "DRAW", "EDIT", "MERGE", "SPLIT", "GROUP", "DRAG", "RESIZE",
          "DRAG_CANVAS", "ZOOM_CANVAS", "INTERACT", "SELECT_REGION"}

Handlers == {"draw", "edit", "merge", "split", "group", "regionSelector", "zoom",
             "interaction"}

SupportedShapeTypes == {"rectangle", "polygon", "polyline", "points", "ellipse",
                        "cuboid", "skeleton"}

-----------------------------------------------------------------------------
(* Object states offered by the upstream model *)

PointsOf(k) == <<0, 0, 10 * k, 10 * k>>

\* clientIDs of the model: 1 a polygon, 2 a skeleton, 3 an object whose shape
\* type the view cannot draw; 21, 22, ... the elements of skeleton 2.
ClientID == [polygon |-> 1, skeleton |-> 2, unknown |-> 3]
PolygonID == ClientID.polygon
SkeletonID == ClientID.skeleton
UnknownID == ClientID.unknown
ElementID(i) == 10 * SkeletonID + i
TopIDs == {PolygonID, SkeletonID, UnknownID}
AttributeIDs == {1}

ObjectState(id, type, upd, frm, pts, hid, lck, pin, z, els) ==
    [clientID |-> id, shapeType |-> type, updated |-> upd, frame |-> frm,
     points |-> pts, rotation |-> 0, zOrder |-> z, hidden |-> hid,
     outside |-> FALSE, occluded |-> FALSE, lock |-> lck, pinned |-> pin,
     elements |-> els]

\* The polygon in every version and with every point array, and moreover, at
\* version 1, on another frame and hidden.
Polygon(u, frm, p, hid) ==
    ObjectState(PolygonID, "polygon", u, frm, PointsOf(p), hid, FALSE, FALSE, 0, <<>>)

\* The polygon locked and the polygon pinned, each at a version of its own: a
\* change of a flag comes with a new version.
LockedPolygon ==
    ObjectState(PolygonID, "polygon", MaxUpdated + 1, 0, PointsOf(1), FALSE, TRUE, FALSE, 0,
                <<>>)
PinnedPolygon ==
    ObjectState(PolygonID, "polygon", MaxUpdated + 2, 0, PointsOf(1), FALSE, FALSE, TRUE, 0,
                <<>>)

Polygons ==
    {Polygon(u, 0, p, FALSE) : u \in 1..MaxUpdated, p \in 1..MaxPoints}
        \cup {Polygon(1, 1, p, FALSE) : p \in 1..MaxPoints}
        \cup {Polygon(1, 0, 1, TRUE)}
        \cup {LockedPolygon, PinnedPolygon}

Element(i, u) ==
    ObjectState(ElementID(i), "points", u, 0, <<i, i>>, FALSE, FALSE, FALSE, 1, <<>>)

RECURSIVE Flat(_)
Flat(els) == IF els = <<>> THEN <<>> ELSE Head(els).points \o Flat(Tail(els))

Skeleton(u, n) ==
    ObjectState(SkeletonID, "skeleton", u, 0, Flat([i \in 1..n |-> Element(i, u)]),
                FALSE, FALSE, FALSE, 1, [i \in 1..n |-> Element(i, u)])

\* The skeleton at version u after its first element was replaced by a new one:
\* its elements are the elements 2..n+1.  The last version of the skeleton is
\* this one.
Regrown(u, n) ==
    ObjectState(SkeletonID, "skeleton", u, 0, Flat([i \in 1..n |-> Element(i + 1, u)]),
                FALSE, FALSE, FALSE, 1, [i \in 1..n |-> Element(i + 1, u)])

Skeletons == {Skeleton(u, MaxElements) : u \in 1..(MaxUpdated - 1)}
                 \cup {Regrown(MaxUpdated, MaxElements)}

Unknowns ==
    {ObjectState(UnknownID, "undefined", 1, 0, PointsOf(1), FALSE, FALSE, FALSE, 0, <<>>)}

Optional(S) == {<<>>} \cup {<<o>> : o \in S}

\* The object lists: any subset of the three objects, each in any of its states.
ObjectLists == {a \o b \o c : a \in Optional(Polygons), b \in Optional(Skeletons),
                              c \in Optional(Unknowns)}

IDsOf(states) == {states[i].clientID : i \in 1..Len(states)}

Find(states, id) == SelectSeq(states, LAMBDA st : st.clientID = id)

-----------------------------------------------------------------------------
(* The view record and the steps a handler is made of *)

Put(f, k, v) == [x \in DOMAIN f \cup {k} |-> IF x = k THEN v ELSE f[x]]
Drop(f, k) == [x \in DOMAIN f \ {k} |-> f[x]]
Without(seq, id) == SelectSeq(seq, LAMBDA x : x # id)

Cur == [mode |-> mode, cursor |-> cursor, objects |-> objects,
        ctrlActive |-> ctrlActive, activeElement |-> activeElement,
        drawnStates |-> drawnStates, svgShapes |-> svgShapes, svgTexts |-> svgTexts,
        content |-> content, drawHidden |-> drawHidden, enabled |-> enabled,
        gesture |-> gesture, trace |-> <<>>, thrown |-> FALSE, unheard |-> FALSE]

Commit(s) ==
    /\ mode' = s.mode
    /\ cursor' = s.cursor
    /\ objects' = s.objects
    /\ ctrlActive' = s.ctrlActive
    /\ activeElement' = s.activeElement
    /\ drawnStates' = s.drawnStates
    /\ svgShapes' = s.svgShapes
    /\ svgTexts' = s.svgTexts
    /\ content' = s.content
    /\ drawHidden' = s.drawHidden
    /\ enabled' = s.enabled
    /\ Cardinality(s.enabled) <= MaxEnabled
    /\ gesture' = s.gesture
    /\ trace' = s.trace
    /\ thrown' = s.thrown
    /\ faults' = IF s.thrown THEN faults + 1 ELSE faults
    /\ lost < MaxLost
    /\ lost' = IF s.unheard THEN lost + 1 ELSE lost
    /\ calc' = calc

\* One entry of the trace: k the kind ("event", "mode", "prim", "view", "handler",
\* "controller"), n the name, id the clientID it is about (NULL when none).
Log(s, k, n, id) == [s EXCEPT !.trace = Append(@, [k |-> k, n |-> n, id |-> id])]

\* A TypeError: the handler stops here.
Throw(s) == [s EXCEPT !.thrown = TRUE]

\* set mode (lines 100-102)
SetMode(s, m) == Log([s EXCEPT !.mode = m], "mode", m, NULL)

\* this.canvas.dispatchEvent(new CustomEvent(name, ...))
Dispatch(s, name, id) == Log(s, "event", name, id)

NoGesture == [kind |-> "none", id |-> NULL]

\* stateIsLocked (lines 108-111)
stateIsLocked(state) == state.lock \/ configuration.forceDisableEditing

\* A JavaScript number is a binary floating-point value: the result of an
\* addition is rounded to the nearest value with Precision significant bits,
\* ties to even. Coordinates are counted in units of the finest fraction the
\* inputs use, so an integer of more than Precision bits loses its low bits.
Round(x) ==
    LET RECURSIVE ulp(_, _)
        ulp(a, u) == IF a < (2 ^ Precision) * u THEN u ELSE ulp(a, 2 * u)
        a == IF x < 0 THEN 0 - x ELSE x
        u == ulp(a, 1)
        q == a \div u
        r == a % u
        m == IF 2 * r > u \/ (2 * r = u /\ q % 2 = 1) THEN (q + 1) * u ELSE q * u
    IN IF x < 0 THEN 0 - m ELSE m

\* translateToCanvas / translateFromCanvas of shared.ts: add / remove the offset
toCanvas(offset, points) == [i \in 1..Len(points) |-> Round(points[i] + offset)]
fromCanvasTwice(offset, points) == [i \in 1..Len(points) |-> Round(points[i] - 2 * offset)]
fromCanvas(offset, points) == [i \in 1..Len(points) |-> Round(points[i] - offset)]

\* translateToCanvas / translateFromCanvas (lines 113-121)
translateToCanvas(points) == toCanvas(geometry.offset, points)
translateFromCanvas(points) == fromCanvas(geometry.offset, points)

\* isInnerHidden (lines 179-181)
isInnerHidden(s, clientID) == clientID \in s.drawHidden

\* a snapshot that keeps the points array of the state itself
RECURSIVE saveStateShared(_)
saveStateShared(state) ==
    [clientID |-> state.clientID,
     outside |-> state.outside,
     occluded |-> state.occluded,
     hidden |-> state.hidden,
     lock |-> state.lock,
     shapeType |-> state.shapeType,
     points |-> state.points,
     sharesPoints |-> TRUE,
     rotation |-> state.rotation,
     zOrder |-> state.zOrder,
     pinned |-> state.pinned,
     updated |-> state.updated,
     frame |-> state.frame,
     elements |-> IF state.shapeType = "skeleton"
                  THEN [i \in 1..Len(state.elements) |-> saveStateShared(state.elements[i])]
                  ELSE <<>>]

\* saveState (lines 1712-1737): the snapshot of the fields that the view keeps
RECURSIVE saveState(_)
saveState(state) ==
    [clientID |-> state.clientID,
     outside |-> state.outside,
     occluded |-> state.occluded,
     hidden |-> state.hidden,
     lock |-> state.lock,
     shapeType |-> state.shapeType,
     points |-> [i \in 1..Len(state.points) |-> state.points[i]],
     sharesPoints |-> FALSE,     \* [...state.points] is an array of its own
     rotation |-> state.rotation,
     zOrder |-> state.zOrder,
     pinned |-> state.pinned,
     updated |-> state.updated,
     frame |-> state.frame,
     elements |-> IF state.shapeType = "skeleton"
                  THEN [i \in 1..Len(state.elements) |-> saveState(state.elements[i])]
                  ELSE <<>>]

\* The primitive that addRect, addPolygon, ..., addSkeleton and its circles create
\* (lines 2505-2667, 3114-3172): the attributes and classes the view reads later.
Primitive(s, state, parent) ==
    [shapeType |-> state.shapeType,
     parent |-> parent,
     points |-> translateToCanvas(state.points),
     rotation |-> state.rotation,
     zOrder |-> state.zOrder,
     occluded |-> state.occluded,
     hidden |-> state.hidden \/ state.outside \/ isInnerHidden(s, state.clientID),
     activated |-> FALSE,        \* class cvat_canvas_shape_activated
     draggableClass |-> FALSE,   \* class cvat_canvas_shape_draggable
     dragHandlers |-> FALSE,     \* dragstart/dragend listeners
     resizeHandlers |-> FALSE,   \* resizestart/resizing/resizedone listeners
     selectized |-> FALSE,       \* control points shown
     removeDrag |-> FALSE,       \* listener remove.drag
     removeResize |-> FALSE]     \* listener remove.resize

\* addText (lines 2439-2503): the label primitive; for a skeleton also the labels
\* of its elements that have none.
addText(s, state) ==
    [s EXCEPT !.svgTexts = @ \cup {state.clientID}
                \cup (IF state.shapeType = "skeleton" THEN IDsOf(state.elements) ELSE {})]

\* deleteText (lines 2426-2437)
deleteText(s, clientID) ==
    [s EXCEPT !.svgTexts = (@ \ {clientID})
                \ (IF clientID \in DOMAIN s.drawnStates
                      /\ s.drawnStates[clientID].shapeType = "skeleton"
                   THEN IDsOf(s.drawnStates[clientID].elements) ELSE {})]

\* sortObjects (lines 1980-2003): a stable sort of the primitives by data-z-order,
\* skipped when all of them have the same z-order.
ZOf(s, id) == IF id \in DOMAIN s.svgShapes THEN s.svgShapes[id].zOrder ELSE 0

RECURSIVE InsertByZ(_, _, _)
InsertByZ(s, sorted, id) ==
    IF sorted = <<>> THEN <<id>>
    ELSE IF ZOf(s, sorted[Len(sorted)]) <= ZOf(s, id) THEN Append(sorted, id)
    ELSE Append(InsertByZ(s, SubSeq(sorted, 1, Len(sorted) - 1), id), sorted[Len(sorted)])

RECURSIVE SortByZ(_, _)
SortByZ(s, seq) ==
    IF seq = <<>> THEN <<>>
    ELSE InsertByZ(s, SortByZ(s, SubSeq(seq, 1, Len(seq) - 1)), seq[Len(seq)])

sortObjectsSkipped(s) == s

sortObjects(s) ==
    LET needSort == \E i \in 1..Len(s.content) : ZOf(s, s.content[i]) # ZOf(s, s.content[1])
    IN IF s.content = <<>> \/ ~needSort THEN s
       ELSE [s EXCEPT !.content = SortByZ(s, s.content)]

-----------------------------------------------------------------------------
(* Activation (lines 2005-2311) *)

\* deactivateAttribute (lines 2005-2021)
deactivateAttribute(s) ==
    IF s.activeElement.clientID # NULL /\ s.activeElement.attributeID # NULL
    THEN [s EXCEPT !.activeElement.attributeID = NULL]
    ELSE s

\* deactivateShape (lines 2023-2065).  this.svgShapes[clientID] and
\* this.drawnStates[clientID] are read without a check: a missing primitive
\* throws at shape.removeClass, a missing DrawnState at drawnState.pinned.
deactivateShape(s) ==
    IF s.thrown \/ s.activeElement.clientID = NULL THEN s
    ELSE
      LET clientID == s.activeElement.clientID
          drawnState == s.drawnStates[clientID]
          begin == Log(s, "view", "deactivate", clientID)
          unmark(t) == [t EXCEPT !.svgShapes[clientID].activated = FALSE,
                                 !.svgShapes[clientID].draggableClass = FALSE]
          undrag(t) == IF ~drawnState.pinned
                       THEN [t EXCEPT !.svgShapes[clientID].dragHandlers = FALSE]
                       ELSE t
          unselect(t) == IF drawnState.shapeType # "points"
                         THEN [t EXCEPT !.svgShapes[clientID].selectized = FALSE]
                         ELSE t
          unresize(t) == [t EXCEPT !.svgShapes[clientID].resizeHandlers = FALSE]
          untext(t) == IF clientID \in t.svgTexts /\ ~configuration.displayAllText
                       THEN deleteText(t, clientID)
                       ELSE t
          reset(t) == [t EXCEPT !.activeElement.clientID = NULL]
      IN IF clientID \notin DOMAIN s.svgShapes THEN Throw(begin)
         ELSE IF clientID \notin DOMAIN s.drawnStates THEN Throw(unmark(begin))
         ELSE reset(sortObjects(untext(unresize(unselect(undrag(unmark(begin)))))))

\* a deactivation that leaves the shape as it is
deactivateAttributeOnly(s) == deactivateAttribute(s)

\* a deactivation that leaves the attribute as it is
deactivateShapeOnly(s) == deactivateShape(s)

\* deactivate (lines 2067-2070)
deactivate(s) == deactivateShape(deactivateAttribute(s))

\* activateAttribute (lines 2072-2085)
activateAttribute(s, clientID, attributeID) ==
    IF s.thrown THEN s
    ELSE IF clientID \in s.svgTexts
    THEN [s EXCEPT !.activeElement.attributeID = attributeID]
    ELSE s

\* activateShape (lines 2087-2286)
activateShape(s, clientID) ==
    IF s.thrown THEN s
    ELSE
      LET found == Find(s.objects, clientID)
          state == found[1]
          begin == Log(s, "view", "activateShape", clientID)
          text(t) == IF clientID \notin t.svgTexts THEN addText(t, state) ELSE t
          mark(t) == [t EXCEPT !.svgShapes[clientID].activated = TRUE,
                               !.content = Append(Without(@, clientID), clientID)]
          drag(t) == IF ~state.pinned
                     THEN [t EXCEPT !.svgShapes[clientID].draggableClass = TRUE,
                                    !.svgShapes[clientID].dragHandlers = TRUE]
                     ELSE t
          select(t) == IF state.shapeType # "points"
                       THEN [t EXCEPT !.svgShapes[clientID].selectized = TRUE]
                       ELSE t
          resize(t) == [t EXCEPT !.svgShapes[clientID].resizeHandlers = TRUE]
      IN IF found # <<>> /\ found[1].shapeType = "points"
            /\ clientID \notin DOMAIN s.svgShapes
         THEN Throw(begin)
         ELSE IF found = <<>> \/ found[1].hidden \/ found[1].outside THEN begin
         ELSE IF stateIsLocked(state) THEN text(begin)
         ELSE IF clientID \notin DOMAIN s.svgShapes THEN Throw(text(begin))
         ELSE Dispatch(resize(select(drag(mark(text(begin))))), "canvas.activated", clientID)

\* activate without the deactivation of the element that is active
activateKeepPrevious(s, element) ==
    LET setActive(t) ==
            IF t.thrown THEN t ELSE [t EXCEPT !.activeElement.clientID = element.clientID]
        shape(t) ==
            IF ~t.thrown /\ element.clientID # NULL
               /\ t.activeElement.clientID # element.clientID
            THEN setActive(activateShape(t, element.clientID))
            ELSE t
    IN IF s.thrown THEN s ELSE shape(s)

\* activate without the test that the element is not the active one
activateAgain(s, element) ==
    IF s.thrown \/ element.clientID = NULL THEN s
    ELSE [activateShape(s, element.clientID)
             EXCEPT !.activeElement.clientID = element.clientID]

\* activate (lines 2288-2311)
activate(s, element) ==
    LET previous(t) ==
            IF t.activeElement.clientID # NULL
            THEN IF t.activeElement.clientID # element.clientID
                 THEN deactivate(t)
                 ELSE IF t.activeElement.attributeID # element.attributeID
                      THEN deactivateAttribute(t)
                      ELSE t
            ELSE t
        setActive(t) ==
            IF t.thrown THEN t ELSE [t EXCEPT !.activeElement.clientID = element.clientID]
        shape(t) ==
            IF ~t.thrown /\ element.clientID # NULL
               /\ t.activeElement.clientID # element.clientID
            THEN setActive(activateShape(t, element.clientID))
            ELSE t
        attribute(t) ==
            IF ~t.thrown /\ element.clientID # NULL /\ element.attributeID # NULL
               /\ t.activeElement.attributeID # element.attributeID
            THEN activateAttribute(t, element.clientID, element.attributeID)
            ELSE t
    IN IF s.thrown THEN s ELSE attribute(shape(previous(s)))

-----------------------------------------------------------------------------
(* Reconciliation (lines 685-733, 1765-1978) *)

\* What svgShapes[id].fire('remove') ... remove() does in deleteObjects
\* (lines 1916-1922).  The listeners of 'remove' run in the order in which they
\* were registered.  A plain shape has the listeners remove.drag (lines
\* 2144-2148) and remove.resize (lines 2229-2233) only: they put the mode back
\* to IDLE and end the gesture.  A circle and a skeleton group have a listener
\* of their own from their creation (lines 2723-2729, 2740-2743), which calls
\* off('remove') and so unregisters remove.drag (lines 2805, 2930) before it
\* has run; the listener remove.resize of a skeleton is registered on the
\* wrapping rectangle (line 2987), on which no 'remove' is fired.  A gesture
\* that is not ended here goes on, on a primitive that is no longer in
\* svgShapes (id NULL).
removeShape(s, clientID) ==
    LET shape == s.svgShapes[clientID]
        plain == shape.shapeType # "skeleton" /\ shape.parent = NULL
        listeners(t) == IF plain /\ (shape.removeDrag \/ shape.removeResize)
                        THEN SetMode([t EXCEPT !.gesture = NoGesture], "IDLE")
                        ELSE t
        remove(t) == [t EXCEPT !.svgShapes = Drop(@, clientID),
                               !.content = Without(@, clientID),
                               !.gesture.id = IF @ = clientID THEN NULL ELSE @]
    IN Log(remove(listeners(s)), "prim", "delete", clientID)

\* deleteObjects (lines 1906-1928)
RECURSIVE deleteObjects(_, _)
deleteObjects(s, states) ==
    IF s.thrown \/ states = <<>> THEN s
    ELSE
      LET state == Head(states)
          text(t) == IF state.clientID \in t.svgTexts THEN deleteText(t, state.clientID)
                     ELSE t
          elements(t) == IF state.shapeType = "skeleton"
                         THEN deleteObjects(t, state.elements)
                         ELSE t
          shape(t) == IF state.clientID \in DOMAIN t.svgShapes
                      THEN removeShape(t, state.clientID)
                      ELSE t
          forget(t) == [t EXCEPT !.drawnStates = Drop(@, state.clientID)]
      IN deleteObjects(forget(shape(elements(text(s)))), Tail(states))

\* addSkeleton (lines 2608-2733): the group and one circle, registered in
\* svgShapes, for every element whose shape type is points.
RECURSIVE addCircles(_, _, _)
addCircles(s, state, elements) ==
    IF elements = <<>> THEN s
    ELSE
      LET element == Head(elements)
          circle(t) == IF element.shapeType = "points"
                       THEN Log([t EXCEPT !.svgShapes =
                                    Put(@, element.clientID,
                                        Primitive(t, element, state.clientID))],
                                "prim", "create", element.clientID)
                       ELSE t
      IN addCircles(circle(s), state, Tail(elements))

\* addObjects that leaves the loop at the first object it cannot draw
RECURSIVE addObjectsUntilUnsupported(_, _)
addObjectsUntilUnsupported(s, states) ==
    IF s.thrown \/ states = <<>> THEN s
    ELSE
      LET state == Head(states)
          circles(t) == IF state.shapeType = "skeleton"
                        THEN addCircles(t, state, state.elements)
                        ELSE t
          shape(t) == Log([t EXCEPT !.svgShapes =
                                       Put(@, state.clientID, Primitive(s, state, NULL)),
                                    !.content = Append(@, state.clientID)],
                          "prim", "create", state.clientID)
          text(t) == IF configuration.displayAllText THEN addText(t, state) ELSE t
          save(t) == [t EXCEPT !.drawnStates = Put(@, state.clientID, saveState(state))]
      IN IF state.shapeType \in SupportedShapeTypes
         THEN addObjectsUntilUnsupported(save(text(shape(circles(s)))), Tail(states))
         ELSE s

\* addObjects (lines 1930-1978)
RECURSIVE addObjects(_, _)
addObjects(s, states) ==
    IF s.thrown \/ states = <<>> THEN s
    ELSE
      LET state == Head(states)
          circles(t) == IF state.shapeType = "skeleton"
                        THEN addCircles(t, state, state.elements)
                        ELSE t
          shape(t) == Log([t EXCEPT !.svgShapes =
                                       Put(@, state.clientID, Primitive(s, state, NULL)),
                                    !.content = Append(@, state.clientID)],
                          "prim", "create", state.clientID)
          text(t) == IF configuration.displayAllText THEN addText(t, state) ELSE t
          save(t) == [t EXCEPT !.drawnStates = Put(@, state.clientID, saveState(state))]
          add(t) == IF state.shapeType \in SupportedShapeTypes
                    THEN save(text(shape(circles(t))))
                    ELSE t
      IN addObjects(add(s), Tail(states))

\* One attribute or class of the primitive is rewritten when cond holds; the
\* primitive is read without a check, so a missing one throws.
PatchShape(s, clientID, cond, field, value) ==
    IF s.thrown \/ ~cond THEN s
    ELSE IF clientID \notin DOMAIN s.svgShapes THEN Throw(s)
    ELSE [s EXCEPT !.svgShapes[clientID][field] = value]

\* The body of the loop of updateObjects (lines 1766-1903) for one state
updateObject(s, state) ==
    LET clientID == state.clientID
        drawnState == s.drawnStates[clientID]
        isInvisible == state.hidden \/ state.outside \/ isInnerHidden(s, clientID)
        begin == Log(s, "prim", "patch", clientID)
        visibility(t) ==
            PatchShape(t, clientID,
                       drawnState.hidden # state.hidden \/ drawnState.outside # state.outside,
                       "hidden", isInvisible)
        zOrder(t) == PatchShape(t, clientID, drawnState.zOrder # state.zOrder,
                                "zOrder", state.zOrder)
        occluded(t) == PatchShape(t, clientID, drawnState.occluded # state.occluded,
                                  "occluded", state.occluded)
        pinned(t) == IF ~t.thrown /\ drawnState.pinned # state.pinned
                        /\ t.activeElement.clientID # NULL
                     THEN activate(deactivate(t), t.activeElement)
                     ELSE t
        unrotate(t) == PatchShape(t, clientID, drawnState.rotation # 0, "rotation", 0)
        points(t) == PatchShape(t, clientID, state.points # drawnState.points,
                                "points", translateToCanvas(state.points))
        rotate(t) == PatchShape(t, clientID, state.rotation # 0,
                                "rotation", state.rotation)
        save(t) == IF t.thrown THEN t
                   ELSE [t EXCEPT !.drawnStates = Put(@, clientID, saveState(state))]
    IN IF clientID \notin DOMAIN s.drawnStates THEN Throw(begin)
       ELSE save(rotate(points(unrotate(pinned(occluded(zOrder(visibility(begin))))))))

\* updateObjects (lines 1765-1904)
RECURSIVE updateObjects(_, _)
updateObjects(s, states) ==
    IF s.thrown \/ states = <<>> THEN s
    ELSE updateObjects(updateObject(s, Head(states)), Tail(states))

\* Object.keys(this.drawnStates): the keys in ascending order
RECURSIVE Ascending(_)
Ascending(S) ==
    IF S = {} THEN <<>>
    ELSE LET m == CHOOSE x \in S : \A y \in S : x <= y
         IN <<m>> \o Ascending(S \ {m})

\* The partition computed at the head of setupObjects (lines 686-703)
Created(s, states) == SelectSeq(states, LAMBDA st : st.clientID \notin DOMAIN s.drawnStates)

NeedsUpdate(drawnState, state) ==
    drawnState.updated # state.updated \/ drawnState.frame # state.frame

Updated(s, states) ==
    SelectSeq(states, LAMBDA st : /\ st.clientID \in DOMAIN s.drawnStates
                                  /\ NeedsUpdate(s.drawnStates[st.clientID], st))

Deleted(s, states) ==
    LET ids == Ascending(DOMAIN s.drawnStates \ IDsOf(states))
    IN [i \in 1..Len(ids) |-> s.drawnStates[ids[i]]]

\* setupObjects (lines 685-733)
setupObjects(s, states) ==
    LET created == Created(s, states)
        updated == Updated(s, states)
        deleted == Deleted(s, states)
        updatedSkeletons == SelectSeq(updated, LAMBDA st : st.shapeType = "skeleton")
        updatedNotSkeletons == SelectSeq(updated, LAMBDA st : st.shapeType # "skeleton")
        off(t) == IF t.activeElement.clientID # NULL THEN deactivate(t) ELSE t
        sort(t) == IF t.thrown THEN t ELSE sortObjects(t)
        on(t) == IF ~t.thrown /\ t.ctrlActive.clientID # NULL
                    /\ t.ctrlActive.clientID \in IDsOf(states)
                 THEN activate(t, t.ctrlActive)
                 ELSE t
    IN IF s.thrown \/ (deleted = <<>> /\ updated = <<>> /\ created = <<>>) THEN s
       ELSE on(sort(addObjects(
                deleteObjects(
                   updateObjects(addObjects(deleteObjects(off(s), deleted), created),
                                 updatedNotSkeletons),
                   updatedSkeletons),
                updatedSkeletons)))

-----------------------------------------------------------------------------
(* notify (lines 1239-1619), one operator per reason *)

\* OBJECTS_UPDATED (lines 1421-1430)
notifyObjectsUpdated(s) ==
    LET resetSelected(t) ==
            IF t.mode = "GROUP" THEN Log(t, "handler", "group.resetSelectedObjects", NULL)
            ELSE t
        setup(t) == setupObjects(t, t.objects)
        repeatSelection(t) ==
            IF ~t.thrown /\ t.mode = "MERGE"
            THEN Log(t, "handler", "merge.repeatSelection", NULL)
            ELSE t
        done(t) == IF t.thrown THEN t ELSE Dispatch(t, "canvas.setup", NULL)
    IN done(repeatSelection(setup(resetSelected(s))))

\* SHAPE_ACTIVATED (lines 1449-1450)
notifyShapeActivated(s) == activate(s, s.ctrlActive)

\* a DATA_FAILED branch that also leaves the running mode, as CANCEL does
notifyDataFailedIdle(s, exception) ==
    SetMode(Dispatch(s, "canvas.error", exception), "IDLE")

\* notify, reason DATA_FAILED (lines 1595-1601): canvas.error with
\* detail.exception = model.exception
notifyDataFailed(s, exception) == Dispatch(s, "canvas.error", exception)

-----------------------------------------------------------------------------
(* The gesture handlers (drawHandler, editHandler, mergeHandler, splitHandler, *)
(* groupHandler, regionSelector, zoomHandler, interactionHandler).  Their code *)
(* is not part of canvasView.ts; what is modelled is their contract: the entry *)
(* method enables or disables the handler according to data.enabled, select   *)
(* passes the selection on, and cancel() releases the handler and reports a   *)
(* cancellation through the completion callback of the handler.               *)

HandlerEntry(s, handler, enable) ==
    Log([s EXCEPT !.enabled = IF enable THEN @ \cup {handler} ELSE @ \ {handler}],
        IF enable THEN "enable" ELSE "disable", handler, NULL)

HandlerSelect(s, handler) == Log(s, "select", handler, NULL)

HandlerRelease(s, handler) ==
    Log([s EXCEPT !.enabled = @ \ {handler}], "cancel", handler, NULL)

-----------------------------------------------------------------------------
(* notify: the interaction families *)

\* setupInnerFlags that keeps the flag only
setupInnerFlagsOnly(s, clientID, value) ==
    [s EXCEPT !.drawHidden = IF value THEN @ \cup {clientID} ELSE @ \ {clientID}]

\* setupInnerFlags (lines 183-217)
setupInnerFlags(s, clientID, value) ==
    IF value
    THEN LET s1 == [s EXCEPT !.drawHidden = @ \cup {clientID}]
         IN IF clientID \notin DOMAIN s1.svgShapes THEN s1
            ELSE IF clientID \notin DOMAIN s1.drawnStates THEN Throw(s1)
            ELSE [s1 EXCEPT !.svgShapes[clientID].hidden = TRUE]
    ELSE LET s1 == [s EXCEPT !.drawHidden = @ \ {clientID}]
         IN IF /\ clientID \in DOMAIN s1.drawnStates
               /\ ~s1.drawnStates[clientID].outside
               /\ ~s1.drawnStates[clientID].hidden
               /\ clientID \in DOMAIN s1.svgShapes
            THEN [s1 EXCEPT !.svgShapes[clientID].hidden = FALSE]
            ELSE s1

\* DRAW (lines 1496-1510)
notifyDraw(s, data) ==
    LET hide(t) == IF data.redraw # NULL THEN setupInnerFlags(t, data.redraw, TRUE) ELSE t
        entry(t) == IF t.thrown THEN t ELSE HandlerEntry(t, "draw", data.enabled)
        forward(t) == IF t.mode # "IDLE" THEN HandlerEntry(t, "draw", data.enabled) ELSE t
    IN IF data.enabled /\ s.mode = "IDLE"
       THEN entry(hide(SetMode([s EXCEPT !.cursor = "crosshair"], "DRAW")))
       ELSE forward([s EXCEPT !.cursor = ""])

\* INTERACT (lines 1511-1526)
notifyInteract(s, data) ==
    IF data.enabled /\ (s.mode = "IDLE" \/ data.intermediateShape)
    THEN LET s1 == IF ~data.intermediateShape
                   THEN SetMode([s EXCEPT !.cursor = "crosshair"], "INTERACT")
                   ELSE s
         IN HandlerEntry(s1, "interaction", data.enabled)
    ELSE LET s1 == IF ~data.enabled THEN [s EXCEPT !.cursor = ""] ELSE s
         IN IF s1.mode # "IDLE" THEN HandlerEntry(s1, "interaction", data.enabled)
            ELSE s1

\* MERGE (lines 1527-1535)
notifyMerge(s, data) ==
    LET s1 == IF data.enabled THEN SetMode([s EXCEPT !.cursor = "copy"], "MERGE")
              ELSE [s EXCEPT !.cursor = ""]
    IN HandlerEntry(s1, "merge", data.enabled)

\* SPLIT (lines 1536-1544)
notifySplit(s, data) ==
    LET s1 == IF data.enabled THEN SetMode([s EXCEPT !.cursor = "copy"], "SPLIT")
              ELSE [s EXCEPT !.cursor = ""]
    IN HandlerEntry(s1, "split", data.enabled)

\* GROUP (lines 1545-1553)
notifyGroup(s, data) ==
    LET s1 == IF data.enabled THEN SetMode([s EXCEPT !.cursor = "copy"], "GROUP")
              ELSE [s EXCEPT !.cursor = ""]
    IN HandlerEntry(s1, "group", data.enabled)

\* SELECT (lines 1554-1561)
notifySelect(s) ==
    IF s.mode = "MERGE" THEN HandlerSelect(s, "merge")
    ELSE IF s.mode = "SPLIT" THEN HandlerSelect(s, "split")
    ELSE IF s.mode = "GROUP" THEN HandlerSelect(s, "group")
    ELSE s

\* SELECT_REGION (lines 1451-1457)
notifySelectRegion(s) ==
    IF s.mode = "SELECT_REGION"
    THEN [HandlerEntry(s, "regionSelector", TRUE) EXCEPT !.cursor = "pointer"]
    ELSE HandlerEntry(s, "regionSelector", FALSE)

\* DRAG_CANVAS (lines 1458-1475)
notifyDragCanvas(s) ==
    IF s.mode = "DRAG_CANVAS"
    THEN [Dispatch(s, "canvas.dragstart", NULL) EXCEPT !.cursor = "move"]
    ELSE [Dispatch(s, "canvas.dragstop", NULL) EXCEPT !.cursor = ""]

\* ZOOM_CANVAS (lines 1476-1495)
notifyZoomCanvas(s) ==
    IF s.mode = "ZOOM_CANVAS"
    THEN HandlerEntry([Dispatch(s, "canvas.zoomstart", NULL) EXCEPT !.cursor = "zoom-in"],
                      "zoom", TRUE)
    ELSE HandlerRelease([Dispatch(s, "canvas.zoomstop", NULL) EXCEPT !.cursor = ""], "zoom")

-----------------------------------------------------------------------------
(* The controller (canvasController.ts / canvasModel.ts, not part of this    *)
(* file): a request of the view is stored by the model, which notifies the   *)
(* view at once with the matching reason.  The model owns the mode of the    *)
(* region selection: it leaves SELECT_REGION when the selection is disabled. *)

controllerDraw(s, data) == notifyDraw(Log(s, "controller", "draw", NULL), data)
controllerInteract(s, data) == notifyInteract(Log(s, "controller", "interact", NULL), data)
controllerMerge(s, data) == notifyMerge(Log(s, "controller", "merge", NULL), data)
controllerSplit(s, data) == notifySplit(Log(s, "controller", "split", NULL), data)
controllerGroup(s, data) == notifyGroup(Log(s, "controller", "group", NULL), data)

modelSelectRegion(s, enable) ==
    notifySelectRegion(IF enable /\ s.mode = "IDLE" THEN SetMode(s, "SELECT_REGION")
                       ELSE IF ~enable /\ s.mode = "SELECT_REGION" THEN SetMode(s, "IDLE")
                       ELSE s)

controllerSelectRegion(s, enable) ==
    modelSelectRegion(Log(s, "controller", "selectRegion", NULL), enable)

modelDragCanvas(s, enable) ==
    notifyDragCanvas(IF enable /\ s.mode = "IDLE" THEN SetMode(s, "DRAG_CANVAS")
                     ELSE IF ~enable /\ s.mode = "DRAG_CANVAS" THEN SetMode(s, "IDLE")
                     ELSE s)

modelZoomCanvas(s, enable) ==
    notifyZoomCanvas(IF enable /\ s.mode = "IDLE" THEN SetMode(s, "ZOOM_CANVAS")
                     ELSE IF ~enable /\ s.mode = "ZOOM_CANVAS" THEN SetMode(s, "IDLE")
                     ELSE s)

-----------------------------------------------------------------------------
(* The completion callbacks (lines 219-445) *)

NoData == [enabled |-> FALSE]

\* onInteraction (lines 219-254); shapes is "array" or "null"
onInteraction(s, shapes, isDone) ==
    LET interacted(t) == IF shapes = "array" THEN Dispatch(t, "canvas.interacted", NULL)
                         ELSE t
        finish(t) ==
            IF shapes = "null" \/ isDone
            THEN controllerInteract(SetMode(Dispatch(t, "canvas.canceled", NULL), "IDLE"),
                                    [enabled |-> FALSE, intermediateShape |-> FALSE])
            ELSE t
    IN finish(interacted(s))

\* onEditDone that reports nothing
onEditDoneSilent(s, state, points, rotation) == SetMode(s, "IDLE")

\* onEditDone (lines 315-338); state is <<>> when undefined, points is <<>>
\* when null
onEditDone(s, state, points, rotation) ==
    LET detail(t) == IF rotation # <<>> THEN Log(t, "detail", "rotation", rotation[1])
                     ELSE t
    IN SetMode(IF state # <<>> /\ points # <<>>
               THEN detail(Dispatch(s, "canvas.edited", state[1].clientID))
               ELSE Dispatch(s, "canvas.canceled", NULL),
               "IDLE")

RECURSIVE ShowHiddenBecauseOfDraw(_, _)
ShowHiddenBecauseOfDraw(s, hiddenBecauseOfDraw) ==
    IF hiddenBecauseOfDraw = <<>> THEN s
    ELSE ShowHiddenBecauseOfDraw(setupInnerFlags(s, Head(hiddenBecauseOfDraw), FALSE),
                                 Tail(hiddenBecauseOfDraw))

\* What a draw handler reports: nothing, a new shape, or the new points of the
\* object clientID that was being redrawn
NoResult == [null |-> TRUE, clientID |-> NULL, points |-> <<>>]
DrawResult(clientID, p) == [null |-> FALSE, clientID |-> clientID, points |-> PointsOf(p)]

\* onDrawDone (lines 256-313)
onDrawDone(s, data, continueDraw) ==
    LET redrawn(t) == onEditDone(Dispatch(t, "canvas.canceled", NULL),
                                 Find(t.objects, data.clientID), data.points, <<>>)
        event(t) == IF ~data.null THEN Dispatch(t, "canvas.drawn", NULL)
                    ELSE IF ~continueDraw THEN Dispatch(t, "canvas.canceled", NULL)
                    ELSE t
        finish(t) == IF ~continueDraw
                     THEN controllerDraw(SetMode(t, "IDLE"),
                                         [enabled |-> FALSE, redraw |-> NULL])
                     ELSE t
        report(t) == IF ~data.null /\ data.clientID # NULL THEN redrawn(t)
                     ELSE finish(event(t))
    IN report(ShowHiddenBecauseOfDraw(s, Ascending(s.drawHidden)))

\* onMergeDone with the mode reset moved in front of the event
onMergeDoneIdleFirst(s, result) ==
    controllerMerge(Dispatch(SetMode(s, "IDLE"), IF result THEN "canvas.merged"
                                                 ELSE "canvas.canceled", NULL), NoData)

\* onMergeDone (lines 340-366)
onMergeDone(s, result) ==
    SetMode(controllerMerge(Dispatch(s, IF result THEN "canvas.merged"
                                        ELSE "canvas.canceled", NULL), NoData),
            "IDLE")

\* onSplitDone (lines 368-394)
onSplitDone(s, result) ==
    SetMode(controllerSplit(Dispatch(s, IF result THEN "canvas.splitted"
                                        ELSE "canvas.canceled", NULL), NoData),
            "IDLE")

\* onGroupDone (lines 396-421)
onGroupDone(s, result) ==
    SetMode(controllerGroup(Dispatch(s, IF result THEN "canvas.groupped"
                                        ELSE "canvas.canceled", NULL), NoData),
            "IDLE")

\* onRegionSelected (lines 423-445)
onRegionSelected(s, result) ==
    SetMode(controllerSelectRegion(Dispatch(s, IF result THEN "canvas.regionselected"
                                               ELSE "canvas.canceled", NULL), FALSE),
            "IDLE")

\* cancel() of a handler: the handler is released and reports null
HandlerCancel(s, handler) ==
    LET report(t) ==
            CASE handler = "draw" -> onDrawDone(t, NoResult, FALSE)
              [] handler = "interaction" -> onInteraction(t, "null", FALSE)
              [] handler = "merge" -> onMergeDone(t, FALSE)
              [] handler = "split" -> onSplitDone(t, FALSE)
              [] handler = "group" -> onGroupDone(t, FALSE)
              [] handler = "regionSelector" -> onRegionSelected(t, FALSE)
              [] handler = "edit" -> onEditDone(t, <<>>, <<>>, <<>>)
              [] OTHER -> t
    IN report(HandlerRelease(s, handler))

\* CANCEL that cancels the draw handler whatever the mode is
notifyCancelDraw(s) ==
    LET idle(t) == IF t.thrown THEN t ELSE [SetMode(t, "IDLE") EXCEPT !.cursor = ""]
    IN idle(HandlerCancel(s, "draw"))

\* CANCEL (lines 1562-1594)
notifyCancel(s) ==
    LET cancel(t) ==
            CASE t.mode = "DRAW" -> HandlerCancel(t, "draw")
              [] t.mode = "INTERACT" -> HandlerCancel(t, "interaction")
              [] t.mode = "MERGE" -> HandlerCancel(t, "merge")
              [] t.mode = "SPLIT" -> HandlerCancel(t, "split")
              [] t.mode = "GROUP" -> HandlerCancel(t, "group")
              [] t.mode = "SELECT_REGION" -> HandlerCancel(t, "regionSelector")
              [] t.mode = "EDIT" -> HandlerCancel(t, "edit")
              [] t.mode = "DRAG_CANVAS" -> Dispatch(t, "canvas.dragstop", NULL)
              [] t.mode = "ZOOM_CANVAS" ->
                     Dispatch(HandlerCancel(t, "zoom"), "canvas.zoomstop", NULL)
              [] OTHER -> t
        idle(t) == IF t.thrown THEN t ELSE [SetMode(t, "IDLE") EXCEPT !.cursor = ""]
    IN idle(cancel(s))

-----------------------------------------------------------------------------
(* The gestures on an activated shape *)

\* translatePointsFromRotatedShape (lines 123-167): the rotation is read and
\* cancelled, the points are mapped through the primitive's screen matrix and
\* the inverse screen matrix of the content, and the rotation is put back in
\* the finally block.  The two matrices cancel for a primitive of the content
\* whose rotation is cancelled; getScreenCTM() of a primitive that is not
\* rendered (broken) is null, and the mapping throws a TypeError.
translatePointsNoFinally(shape, points, broken) ==
    LET rotation == shape.rotation
        unrotated == [shape EXCEPT !.rotation = 0]
    IN IF broken
       THEN [shape |-> unrotated, result |-> <<>>, thrown |-> TRUE]
       ELSE [shape |-> [unrotated EXCEPT !.rotation = rotation], result |-> points,
             thrown |-> FALSE]

translatePointsFromRotatedShape(shape, points, broken) ==
    LET rotation == shape.rotation
        unrotated == [shape EXCEPT !.rotation = 0]
        mapped == IF broken
                  THEN [result |-> <<>>, thrown |-> TRUE]
                  ELSE [result |-> points, thrown |-> FALSE]
    IN [shape |-> [unrotated EXCEPT !.rotation = rotation], result |-> mapped.result,
        thrown |-> mapped.thrown]

\* readPointsFromShape of shared.ts
readPointsFromShape(shape) == shape.points

\* the dragstart handler (lines 2141-2149)
dragstart(s, clientID) ==
    [SetMode(s, "DRAG") EXCEPT !.svgShapes[clientID].removeDrag = TRUE,
                               !.gesture = [kind |-> "drag", id |-> clientID]]

\* What the gesture library does to the primitive while it is dragged or resized
MoveShape(s, clientID, p) ==
    [s EXCEPT !.svgShapes[clientID].points = translateToCanvas(PointsOf(p))]

\* the dragend handler (lines 2150-2184); moved: the pointer went at least delta
dragend(s, clientID, moved) ==
    LET shape == s.svgShapes[clientID]
        s1 == SetMode([s EXCEPT !.svgShapes[clientID].removeDrag = FALSE,
                                !.gesture = NoGesture], "IDLE")
        points == readPointsFromShape(shape)
    IN IF ~moved THEN s1
       ELSE IF clientID \notin DOMAIN s1.drawnStates THEN Throw(s1)
       ELSE
         LET s2 == [s1 EXCEPT !.drawnStates[clientID].points = translateFromCanvas(points)]
             mapped == IF shape.rotation # 0
                       THEN translatePointsFromRotatedShape(shape, points, FALSE).result
                       ELSE points
             s3 == onEditDone(s2, <<[clientID |-> clientID]>>, translateFromCanvas(mapped), <<>>)
         IN Dispatch(s3, "canvas.dragshape", clientID)

\* the resizestart handler (lines 2221-2234)
resizestart(s, clientID) ==
    [SetMode(s, "RESIZE") EXCEPT !.svgShapes[clientID].removeResize = TRUE,
                                 !.gesture = [kind |-> "resize", id |-> clientID]]

\* while (rotation < 0) rotation += 360; rotation %= 360 (lines 2248-2250 and
\* 3034-3036)
rotationAsRead(rotation) == rotation

RECURSIVE rotationInRange(_)
rotationInRange(rotation) ==
    IF rotation < 0 THEN rotationInRange(rotation + 360) ELSE rotation % 360

\* the resizedone handler (lines 2241-2275)
resizedone(s, clientID, resized) ==
    LET shape == s.svgShapes[clientID]
        s1 == SetMode([s EXCEPT !.svgShapes[clientID].removeResize = FALSE,
                                !.gesture = NoGesture], "IDLE")
        rotation == rotationInRange(shape.rotation)
        points == readPointsFromShape(shape)
    IN IF ~resized THEN s1
       ELSE IF clientID \notin DOMAIN s1.drawnStates THEN Throw(s1)
       ELSE
         LET s2 == [s1 EXCEPT !.drawnStates[clientID].points = translateFromCanvas(points),
                              !.drawnStates[clientID].rotation = rotation]
             mapped == IF rotation # 0
                       THEN translatePointsFromRotatedShape(shape, points, FALSE).result
                       ELSE points
             s3 == onEditDone(s2, <<[clientID |-> clientID]>>, translateFromCanvas(mapped),
                              <<rotation>>)
         IN Dispatch(s3, "canvas.resizeshape", clientID)

\* skeleton.draggable: the dragstart handler of the wrapping rectangle (lines
\* 2802-2812); remove.drag is registered on the skeleton group
skeletonDragstart(s, clientID) ==
    [SetMode(s, "DRAG") EXCEPT !.svgShapes[clientID].removeDrag = TRUE,
                               !.gesture = [kind |-> "skeletondrag", id |-> clientID]]

\* skeleton.draggable: the dragend handler of the wrapping rectangle (lines
\* 2842-2877), at the time its timer task runs.  The circles are read where
\* they are drawn; state.points goes to onEditDone.
skeletonDragend(s, clientID, moved) ==
    LET state == Find(s.objects, clientID)
        end(t) == SetMode([t EXCEPT !.svgShapes[clientID].removeDrag = FALSE,
                                    !.gesture = NoGesture], "IDLE")
        report(t) == IF moved
                     THEN onEditDone(Dispatch(t, "canvas.dragshape", clientID), state,
                                     IF state = <<>> THEN <<>> ELSE state[1].points, <<>>)
                     ELSE t
    IN report(end(s))

\* skeleton.resize: the resizestart handler of the wrapping rectangle (lines
\* 2983-2994); remove.resize is registered on the wrapping rectangle
skeletonResizestart(s, clientID) ==
    [SetMode(s, "RESIZE") EXCEPT !.gesture = [kind |-> "skeletonresize", id |-> clientID]]

\* skeleton.resize: the resizedone handler of the wrapping rectangle (lines
\* 3032-3074), at the time its timer task runs
skeletonResizedone(s, clientID, resized) ==
    LET state == Find(s.objects, clientID)
        rotation == rotationInRange(s.svgShapes[clientID].rotation)
        end(t) == SetMode([t EXCEPT !.gesture = NoGesture], "IDLE")
        report(t) == IF resized
                     THEN Dispatch(onEditDone(t, state,
                                              IF state = <<>> THEN <<>>
                                              ELSE IF rotation # 0 THEN state[1].points
                                              ELSE Flat(state[1].elements),
                                              <<rotation>>),
                                   "canvas.resizeshape", clientID)
                     ELSE t
    IN report(end(s))

\* skeleton.resize: the dragstart handler of a circle (lines 2927-2936); the
\* drag of an element is a RESIZE of the skeleton
elementDragstart(s, clientID) ==
    [SetMode(s, "RESIZE") EXCEPT !.svgShapes[clientID].removeDrag = TRUE,
                                 !.gesture = [kind |-> "elementdrag", id |-> clientID]]

\* skeleton.resize: the dragend handler of a circle (lines 2943-2973), at the
\* time its timer task runs
elementDragend(s, clientID, moved) ==
    LET end(t) == SetMode([t EXCEPT !.svgShapes[clientID].removeDrag = FALSE,
                                    !.gesture = NoGesture], "IDLE")
        report(t) == IF moved
                     THEN onEditDone(Dispatch(t, "canvas.resizeshape", clientID),
                                     <<[clientID |-> clientID]>>,
                                     translateFromCanvas(
                                         readPointsFromShape(s.svgShapes[clientID])), <<>>)
                     ELSE t
    IN report(end(s))

\* points.slice(0, pointID * 2).concat(points.slice(pointID * 2 + 2)) (line 832)
WithoutPoint(points, pointID) ==
    SubSeq(points, 1, 2 * pointID) \o SubSeq(points, 2 * pointID + 3, Len(points))

\* mousedownHandler of selectize (lines 809-851): the left button goes down on
\* control point pointID with the key "alt", "shift" or "none" held
mousedownHandler(s, key, pointID) ==
    IF s.activeElement.clientID = NULL THEN s
    ELSE
      LET state == Find(s.objects, s.activeElement.clientID)
          entry(t) == IF t.thrown THEN t ELSE HandlerEntry(t, "edit", TRUE)
      IN IF state = <<>> THEN Throw(s)
         ELSE IF state[1].shapeType \notin {"polygon", "polyline", "points"} THEN s
         ELSE IF key = "alt"
              THEN onEditDone(s, state, WithoutPoint(state[1].points, pointID), <<>>)
         ELSE IF key = "shift"
              THEN entry(deactivate(SetMode(Dispatch(s, "canvas.editstart", NULL), "EDIT")))
         ELSE s

-----------------------------------------------------------------------------
(* The initial state (constructor, lines 1023-1039) *)

NoElement == [clientID |-> NULL, attributeID |-> NULL]

Constructed ==
    /\ mode = "IDLE"
    /\ cursor = ""
    /\ objects = <<>>
    /\ ctrlActive = NoElement
    /\ activeElement = NoElement
    /\ drawnStates = <<>>
    /\ svgShapes = <<>>
    /\ svgTexts = {}
    /\ content = <<>>
    /\ drawHidden = {}
    /\ enabled = {}
    /\ gesture = NoGesture
    /\ trace = <<>>
    /\ thrown = FALSE
    /\ faults = 0
    /\ lost = 0
    /\ lastOp = [op |-> "init", repeat |-> FALSE, from |-> "IDLE", result |-> "none",
                 flag |-> FALSE]

\* No geometry helper has been evaluated.
Init ==
    /\ Constructed
    /\ calc = [fn |-> "none", offset |-> 0, points |-> <<>>, shape |-> [rotation |-> 0],
               broken |-> FALSE, steps |-> 0, out |-> <<>>, left |-> [rotation |-> 0],
               thrown |-> FALSE]

-----------------------------------------------------------------------------
(* Actions *)

\* What lastOp records of a step: the operation, whether it repeats the
\* operation before it, the mode it started in, and its input
Op(name, repeat, result, flag) ==
    [op |-> name, repeat |-> repeat, from |-> mode, result |-> result, flag |-> flag]

\* The upstream model writes into the points array of one of the object states
\* it has handed over, after the reconciliation; a DrawnState that shares the
\* array sees the write.
MutatePoints(i) ==
    /\ faults < MaxFaults
    /\ lastOp.op = "setup"
    /\ i \in DOMAIN objects
    /\ LET written == [objects[i].points EXCEPT ![1] = @ + 1]
           seen(drawnState) == IF drawnState.sharesPoints
                                  /\ drawnState.clientID = objects[i].clientID
                               THEN [drawnState EXCEPT !.points = written]
                               ELSE drawnState
       IN Commit([Cur EXCEPT !.objects[i].points = written,
                             !.drawnStates = [id \in DOMAIN @ |-> seen(@[id])]])
    /\ lastOp' = Op("mutate", FALSE, "none", FALSE)

\* The upstream model replaces its object list and notifies OBJECTS_UPDATED.
Setup(states) ==
    /\ faults < MaxFaults
    /\ Commit(notifyObjectsUpdated([Cur EXCEPT !.objects = states]))
    /\ lastOp' = Op("setup", lastOp.op = "setup" /\ states = objects, "none", FALSE)

\* The upstream model sets its active element and notifies SHAPE_ACTIVATED.
Activate(element) ==
    /\ faults < MaxFaults
    /\ Commit(notifyShapeActivated([Cur EXCEPT !.ctrlActive = element]))
    /\ lastOp' = Op("activate", FALSE, "none", FALSE)

ActiveElements == [clientID : TopIDs \cup {NULL}, attributeID : {NULL}]
                      \cup [clientID : {PolygonID}, attributeID : AttributeIDs]

Next ==
    \/ \E states \in ObjectLists : Setup(states)
    \/ \E element \in ActiveElements : Activate(element)

Spec == Init /\ [][Next]_vars

-----------------------------------------------------------------------------
(* The mode machine: the notifications of the interaction families, the      *)
(* completions reported by the handlers and the gestures, over a scene of    *)
(* one polygon.                                                              *)

DrawDatas == [enabled : BOOLEAN, redraw : {NULL, PolygonID}]
InteractionDatas == [enabled : BOOLEAN, intermediateShape : BOOLEAN]
Datas == [enabled : BOOLEAN]

NotifyDraw(data) ==
    /\ faults < MaxFaults
    /\ Commit(notifyDraw(Cur, data))
    /\ lastOp' = Op("DRAW", FALSE, "none", data.enabled)

NotifyInteract(data) ==
    /\ faults < MaxFaults
    /\ Commit(notifyInteract(Cur, data))
    /\ lastOp' = Op("INTERACT", FALSE, "none", data.enabled)

NotifyMerge(data) ==
    /\ faults < MaxFaults
    /\ Commit(notifyMerge(Cur, data))
    /\ lastOp' = Op("MERGE", FALSE, "none", data.enabled)

NotifySplit(data) ==
    /\ faults < MaxFaults
    /\ Commit(notifySplit(Cur, data))
    /\ lastOp' = Op("SPLIT", FALSE, "none", data.enabled)

NotifyGroup(data) ==
    /\ faults < MaxFaults
    /\ Commit(notifyGroup(Cur, data))
    /\ lastOp' = Op("GROUP", FALSE, "none", data.enabled)

NotifySelect ==
    /\ faults < MaxFaults
    /\ Commit(notifySelect(Cur))
    /\ lastOp' = Op("SELECT", FALSE, "none", FALSE)

NotifyCancel ==
    /\ faults < MaxFaults
    /\ Commit(notifyCancel(Cur))
    /\ lastOp' = Op("CANCEL", FALSE, "none", FALSE)

\* The upstream model is asked to select a region, to drag or to zoom the
\* canvas: it takes the mode from IDLE, or gives it back, and notifies.
SelectRegion(enable) ==
    /\ faults < MaxFaults
    /\ IF enable THEN mode = "IDLE" ELSE mode = "SELECT_REGION"
    /\ Commit(modelSelectRegion(Cur, enable))
    /\ lastOp' = Op("SELECT_REGION", FALSE, "none", enable)

DragCanvas(enable) ==
    /\ faults < MaxFaults
    /\ IF enable THEN mode = "IDLE" ELSE mode = "DRAG_CANVAS"
    /\ Commit(modelDragCanvas(Cur, enable))
    /\ lastOp' = Op("DRAG_CANVAS", FALSE, "none", enable)

ZoomCanvas(enable) ==
    /\ faults < MaxFaults
    /\ IF enable THEN mode = "IDLE" ELSE mode = "ZOOM_CANVAS"
    /\ Commit(modelZoomCanvas(Cur, enable))
    /\ lastOp' = Op("ZOOM_CANVAS", FALSE, "none", enable)

\* An enabled handler reports a completion.  A handler that reports its last
\* result has released itself before it calls back.
Released(handler) == [Cur EXCEPT !.enabled = @ \ {handler}]

DrawResults ==
    {NoResult} \cup {DrawResult(clientID, MaxPoints) : clientID \in {NULL, PolygonID}}

DrawDone(data, continueDraw) ==
    /\ faults < MaxFaults
    /\ "draw" \in enabled
    /\ data.clientID # NULL => data.clientID \in drawHidden
    /\ Commit(onDrawDone(IF continueDraw THEN Cur ELSE Released("draw"), data, continueDraw))
    /\ lastOp' = Op("onDrawDone", FALSE,
                    IF data.null THEN "null" ELSE IF data.clientID # NULL THEN "redraw"
                    ELSE "new", continueDraw)

Interaction(shapes, isDone) ==
    /\ faults < MaxFaults
    /\ "interaction" \in enabled
    /\ Commit(onInteraction(IF shapes = "null" \/ isDone THEN Released("interaction") ELSE Cur,
                            shapes, isDone))
    /\ lastOp' = Op("onInteraction", FALSE, shapes, isDone)

EditDone(result) ==
    /\ faults < MaxFaults
    /\ "edit" \in enabled
    /\ Commit(onEditDone(Released("edit"),
                         IF result THEN <<[clientID |-> PolygonID]>> ELSE <<>>,
                         IF result THEN PointsOf(MaxPoints) ELSE <<>>, <<>>))
    /\ lastOp' = Op("onEditDone", FALSE, IF result THEN "result" ELSE "null", FALSE)

MergeDone(result) ==
    /\ faults < MaxFaults
    /\ "merge" \in enabled
    /\ Commit(onMergeDone(Released("merge"), result))
    /\ lastOp' = Op("onMergeDone", FALSE, IF result THEN "result" ELSE "null", FALSE)

SplitDone(result) ==
    /\ faults < MaxFaults
    /\ "split" \in enabled
    /\ Commit(onSplitDone(Released("split"), result))
    /\ lastOp' = Op("onSplitDone", FALSE, IF result THEN "result" ELSE "null", FALSE)

GroupDone(result) ==
    /\ faults < MaxFaults
    /\ "group" \in enabled
    /\ Commit(onGroupDone(Released("group"), result))
    /\ lastOp' = Op("onGroupDone", FALSE, IF result THEN "result" ELSE "null", FALSE)

RegionSelected(result) ==
    /\ faults < MaxFaults
    /\ "regionSelector" \in enabled
    /\ Commit(onRegionSelected(Released("regionSelector"), result))
    /\ lastOp' = Op("onRegionSelected", FALSE, IF result THEN "result" ELSE "null", FALSE)

\* The gesture library reports the start and the end of a drag or a resize of
\* a shape that carries the handlers, and a button press on a control point.
\* The gesture library fires dragstart on a plain shape that has the listener;
\* the drag of a skeleton is the drag of its wrapping rectangle (line 2801).
DragStart(clientID) ==
    /\ faults < MaxFaults
    /\ gesture = NoGesture
    /\ clientID \in DOMAIN svgShapes
    /\ svgShapes[clientID].shapeType # "skeleton"
    /\ svgShapes[clientID].dragHandlers
    /\ Commit(dragstart(Cur, clientID))
    /\ lastOp' = Op("dragstart", FALSE, "none", FALSE)

\* The pointer is released: the gesture library ends the drag and fires dragend
\* on the shape, which runs the handler if deactivateShape has not unregistered
\* it in the meantime (line 2035).
Listens(id, field) == id \in DOMAIN svgShapes /\ svgShapes[id][field]

DragEnd(moved) ==
    /\ faults < MaxFaults
    /\ gesture.kind = "drag"
    /\ Commit(IF Listens(gesture.id, "dragHandlers")
              THEN dragend(IF moved THEN MoveShape(Cur, gesture.id, MaxPoints) ELSE Cur,
                           gesture.id, moved)
              ELSE [Cur EXCEPT !.gesture = NoGesture, !.unheard = TRUE])
    /\ lastOp' = Op("dragend", FALSE, "none", moved)

ResizeStart(clientID) ==
    /\ faults < MaxFaults
    /\ gesture = NoGesture
    /\ clientID \in DOMAIN svgShapes
    /\ svgShapes[clientID].shapeType # "skeleton"
    /\ svgShapes[clientID].resizeHandlers
    /\ Commit(resizestart(Cur, clientID))
    /\ lastOp' = Op("resizestart", FALSE, "none", FALSE)

\* the resize has left the primitive rotated by turned degrees
ResizeDone(resized, turned) ==
    /\ faults < MaxFaults
    /\ gesture.kind = "resize"
    /\ Commit(IF Listens(gesture.id, "resizeHandlers")
              THEN resizedone(IF resized
                              THEN [MoveShape(Cur, gesture.id, MaxPoints)
                                        EXCEPT !.svgShapes[gesture.id].rotation = turned]
                              ELSE Cur,
                              gesture.id, resized)
              ELSE [Cur EXCEPT !.gesture = NoGesture, !.unheard = TRUE])
    /\ lastOp' = Op("resizedone", FALSE, "none", resized)

MouseDown(key) ==
    /\ faults < MaxFaults
    /\ \E clientID \in DOMAIN svgShapes : svgShapes[clientID].selectized
    /\ Commit(mousedownHandler(Cur, key, 0))
    /\ lastOp' = Op("mousedown", FALSE, key, FALSE)

SceneLists == {<<>>, <<Polygon(1, 0, 1, FALSE)>>}
SceneElements == {NoElement, [clientID |-> PolygonID, attributeID |-> NULL]}

NextMode ==
    \/ \E states \in SceneLists : Setup(states)
    \/ \E element \in SceneElements : Activate(element)
    \/ \E data \in DrawDatas : NotifyDraw(data)
    \/ \E data \in InteractionDatas : NotifyInteract(data)
    \/ \E data \in Datas : NotifyMerge(data)
    \/ \E data \in Datas : NotifySplit(data)
    \/ \E data \in Datas : NotifyGroup(data)
    \/ NotifySelect
    \/ NotifyCancel
    \/ \E enable \in BOOLEAN : SelectRegion(enable)
    \/ \E enable \in BOOLEAN : DragCanvas(enable)
    \/ \E enable \in BOOLEAN : ZoomCanvas(enable)
    \/ \E data \in DrawResults, continueDraw \in BOOLEAN : DrawDone(data, continueDraw)
    \/ \E shapes \in {"null", "array"}, isDone \in BOOLEAN : Interaction(shapes, isDone)
    \/ \E result \in BOOLEAN : EditDone(result)
    \/ \E result \in BOOLEAN : MergeDone(result)
    \/ \E result \in BOOLEAN : SplitDone(result)
    \/ \E result \in BOOLEAN : GroupDone(result)
    \/ \E result \in BOOLEAN : RegionSelected(result)
    \/ \E clientID \in TopIDs : DragStart(clientID)
    \/ \E moved \in BOOLEAN : DragEnd(moved)
    \/ \E clientID \in TopIDs : ResizeStart(clientID)
    \/ \E resized \in BOOLEAN : ResizeDone(resized, 0)
    \/ \E key \in {"alt", "shift"} : MouseDown(key)

SpecMode == Init /\ [][NextMode]_vars

-----------------------------------------------------------------------------
(* The gestures on plain shapes, skeletons and skeleton elements, over the    *)
(* scenes of a polygon and a skeleton.                                        *)

SkeletonDragStart(clientID) ==
    /\ faults < MaxFaults
    /\ gesture = NoGesture
    /\ clientID \in DOMAIN svgShapes
    /\ svgShapes[clientID].shapeType = "skeleton"
    /\ svgShapes[clientID].dragHandlers
    /\ Commit(skeletonDragstart(Cur, clientID))
    /\ lastOp' = Op("dragstart", FALSE, "none", FALSE)

SkeletonDragEnd(moved) ==
    /\ faults < MaxFaults
    /\ gesture.kind = "skeletondrag"
    /\ Commit(IF Listens(gesture.id, "dragHandlers")
              THEN skeletonDragend(Cur, gesture.id, moved)
              ELSE [Cur EXCEPT !.gesture = NoGesture, !.unheard = TRUE])
    /\ lastOp' = Op("dragend", FALSE, "none", moved)

SkeletonResizeStart(clientID) ==
    /\ faults < MaxFaults
    /\ gesture = NoGesture
    /\ clientID \in DOMAIN svgShapes
    /\ svgShapes[clientID].shapeType = "skeleton"
    /\ svgShapes[clientID].resizeHandlers
    /\ Commit(skeletonResizestart(Cur, clientID))
    /\ lastOp' = Op("resizestart", FALSE, "none", FALSE)

SkeletonResizeDone(resized, turned) ==
    /\ faults < MaxFaults
    /\ gesture.kind = "skeletonresize"
    /\ Commit(IF Listens(gesture.id, "resizeHandlers")
              THEN skeletonResizedone(IF resized
                                      THEN [Cur EXCEPT !.svgShapes[gesture.id].rotation
                                                           = turned]
                                      ELSE Cur,
                                      gesture.id, resized)
              ELSE [Cur EXCEPT !.gesture = NoGesture, !.unheard = TRUE])
    /\ lastOp' = Op("resizedone", FALSE, "none", resized)

\* The circles are draggable while skeleton.resize(action) is in force (lines
\* 2925-2926), that is while the skeleton has its resize handlers.
ElementListens(id) ==
    /\ id \in DOMAIN svgShapes
    /\ svgShapes[id].parent \in DOMAIN svgShapes
    /\ svgShapes[svgShapes[id].parent].resizeHandlers

ElementDragStart(clientID) ==
    /\ faults < MaxFaults
    /\ gesture = NoGesture
    /\ ElementListens(clientID)
    /\ Commit(elementDragstart(Cur, clientID))
    /\ lastOp' = Op("resizestart", FALSE, "none", FALSE)

ElementDragEnd(moved) ==
    /\ faults < MaxFaults
    /\ gesture.kind = "elementdrag"
    /\ Commit(IF ElementListens(gesture.id)
              THEN elementDragend(Cur, gesture.id, moved)
              ELSE [Cur EXCEPT !.gesture = NoGesture, !.unheard = TRUE])
    /\ lastOp' = Op("resizedone", FALSE, "none", moved)

\* model.exception: the failures the upstream model can report
ExceptionNames == <<"decode", "network">>
Exceptions == DOMAIN ExceptionNames

\* The upstream model stores an exception and notifies DATA_FAILED.
DataFailed(exception) ==
    /\ faults < MaxFaults
    /\ Commit(notifyDataFailed(Cur, exception))
    /\ lastOp' = Op("DATA_FAILED", FALSE, ExceptionNames[exception], FALSE)

\* The object that cannot be drawn comes first in the list.
GestureLists ==
    {c \o a \o b : c \in Optional(Unknowns),
                   a \in Optional({Polygon(u, 0, 1, FALSE) : u \in 1..MaxUpdated}),
                   b \in Optional(Skeletons)}
GestureElements == [clientID : {NULL, PolygonID, SkeletonID}, attributeID : {NULL}]

NextCopy ==
    \/ \E states \in ObjectLists : Setup(states)
    \/ \E i \in 1..3 : MutatePoints(i)

SpecCopy == Init /\ [][NextCopy]_vars

\* the rotations a resize can leave on a primitive
Rotations == {-450, 0, 405}

NextGesture ==
    \/ \E states \in GestureLists : Setup(states)
    \/ \E element \in GestureElements : Activate(element)
    \/ \E clientID \in TopIDs : DragStart(clientID)
    \/ \E moved \in BOOLEAN : DragEnd(moved)
    \/ \E clientID \in TopIDs : ResizeStart(clientID)
    \/ \E resized \in BOOLEAN, turned \in Rotations : ResizeDone(resized, turned)
    \/ \E clientID \in TopIDs : SkeletonDragStart(clientID)
    \/ \E moved \in BOOLEAN : SkeletonDragEnd(moved)
    \/ \E clientID \in TopIDs : SkeletonResizeStart(clientID)
    \/ \E resized \in BOOLEAN, turned \in Rotations : SkeletonResizeDone(resized, turned)
    \/ \E i \in 1..(MaxElements + 1) : ElementDragStart(ElementID(i))
    \/ \E moved \in BOOLEAN : ElementDragEnd(moved)
    \/ \E exception \in Exceptions : DataFailed(exception)

SpecGesture == Init /\ [][NextGesture]_vars

-----------------------------------------------------------------------------
(* Properties of the reconciliation *)

\* The positions of a trace that create, patch or delete a primitive, and
\* those that deactivate or activate a shape
PrimOps(tr) == {i \in 1..Len(tr) : tr[i].k = "prim"}
PrimOpsOn(tr, id) == {i \in PrimOps(tr) : tr[i].id = id}
ViewOps(tr) == {i \in 1..Len(tr) : tr[i].k = "view"}

\* The rendered top-level identifiers, and the identifiers of a list that the
\* view can draw
Rendered == {id \in TopIDs : id \in DOMAIN drawnStates /\ id \in DOMAIN svgShapes}
Drawable(states) ==
    {states[i].clientID :
        i \in {j \in 1..Len(states) : states[j].shapeType \in SupportedShapeTypes}}

HasChanges(s, states) ==
    Created(s, states) # <<>> \/ Updated(s, states) # <<>> \/ Deleted(s, states) # <<>>

\* C1: a setupObjects that repeats the list of the setupObjects just before it
\* creates, patches and deletes no primitive and deactivates and activates
\* nothing.
C1_RepeatedSetupIsNoOp ==
    (lastOp.op = "setup" /\ lastOp.repeat) => (PrimOps(trace) = {} /\ ViewOps(trace) = {})

\* C2: after setupObjects(L) the rendered top-level identifiers are exactly the
\* identifiers of L whose shape type the view can draw.
C2_RenderedIsIncoming == lastOp.op = "setup" => Rendered = Drawable(objects)

\* C3: in a setupObjects, an incoming object that is already drawn gets a
\* primitive operation if and only if its 'updated' or its 'frame' differs from
\* its DrawnState.
C3_VersionIsSyncKey ==
    [][lastOp'.op = "setup" =>
         \A i \in 1..Len(objects') :
            LET state == objects'[i] IN
            state.clientID \in DOMAIN drawnStates =>
                (PrimOpsOn(trace', state.clientID) # {}
                    <=> NeedsUpdate(drawnStates[state.clientID], state))]_vars

\* C10: a setupObjects that has something to create, update or delete while an
\* element is active deactivates it before the first primitive operation, and
\* when the incoming list is empty no element is active afterwards.
C10_DeactivatedBeforeMutation ==
    [][(lastOp'.op = "setup" /\ activeElement.clientID # NULL
            /\ HasChanges(Cur, objects')) =>
         /\ trace'[1] = [k |-> "view", n |-> "deactivate", id |-> activeElement.clientID]
         /\ objects' = <<>> => activeElement' = NoElement]_vars

-----------------------------------------------------------------------------
(* Properties of the mode machine *)

\* The modes written by the last step, in order, after the mode it started in
ModeWrites == SelectSeq(trace, LAMBDA e : e.k = "mode")
ModeSeq == <<lastOp.from>> \o [i \in 1..Len(ModeWrites) |-> ModeWrites[i].n]

\* The events that report the outcome of a gesture
CompletionEvents == {"canvas.drawn", "canvas.edited", "canvas.merged", "canvas.splitted",
                     "canvas.groupped", "canvas.regionselected", "canvas.interacted"}
OutcomeEvents ==
    {i \in 1..Len(trace) : /\ trace[i].k = "event"
                           /\ trace[i].n \in CompletionEvents \cup {"canvas.canceled"}}
IdleWrites == {i \in 1..Len(trace) : trace[i] = [k |-> "mode", n |-> "IDLE", id |-> NULL]}

Callbacks == {"onDrawDone", "onEditDone", "onMergeDone", "onSplitDone", "onGroupDone",
              "onRegionSelected", "onInteraction"}

\* C4: the mode is a value of the enumeration and at most one gesture handler is
\* enabled.
C4_SingleActiveMode == mode \in Modes /\ Cardinality(enabled) <= 1

\* C5: every write of a busy mode happens while the mode is IDLE (or is that
\* busy mode already).
C5_NoModeStacking ==
    \A i \in 2..Len(ModeSeq) :
        ModeSeq[i] \notin {"IDLE", ModeSeq[i - 1]} => ModeSeq[i - 1] = "IDLE"

\* The modes whose handler has a completion callback, and the steps that end
\* a gesture: a CANCEL in such a mode and a callback that reports null or isDone
CallbackModes == {"DRAW", "INTERACT", "MERGE", "SPLIT", "GROUP", "SELECT_REGION", "EDIT"}
EndsGesture ==
    \/ lastOp.op = "CANCEL" /\ lastOp.from \in CallbackModes
    \/ lastOp.op \in Callbacks \ {"onDrawDone", "onInteraction"} /\ lastOp.result = "null"
    \/ lastOp.op = "onDrawDone" /\ lastOp.result = "null" /\ ~lastOp.flag
    \/ lastOp.op = "onInteraction" /\ (lastOp.result = "null" \/ lastOp.flag)

\* C6: a CANCEL in the mode of a gesture handler, and a completion callback
\* that reports null or isDone, leave the mode IDLE and dispatch exactly one
\* event out of canvas.canceled and the completion events.
C6_OneOutcomeEvent == EndsGesture => (mode = "IDLE" /\ Cardinality(OutcomeEvents) = 1)

\* The handler of each mode that has one, and the cancel() calls of the last step
CancelTarget == [DRAW |-> "draw", INTERACT |-> "interaction", MERGE |-> "merge",
                 SPLIT |-> "split", GROUP |-> "group", SELECT_REGION |-> "regionSelector",
                 EDIT |-> "edit", ZOOM_CANVAS |-> "zoom"]
CancelCalls == SelectSeq(trace, LAMBDA e : e.k = "cancel")

\* C7: a CANCEL calls cancel() once, on the handler of the mode it arrives in
\* and on no other handler (on none in IDLE, DRAG, RESIZE and DRAG_CANVAS), and
\* leaves the mode IDLE and the cursor ''.
C7_CancelRoutesToModeHandler ==
    lastOp.op = "CANCEL" =>
        /\ IF lastOp.from \in DOMAIN CancelTarget
           THEN Len(CancelCalls) = 1 /\ CancelCalls[1].n = CancelTarget[lastOp.from]
           ELSE CancelCalls = <<>>
        /\ mode = "IDLE"
        /\ cursor = ""

\* a CANCEL arrived in MERGE mode while the draw handler was enabled as well,
\* and the draw handler is still enabled
C7_Witness == lastOp.op = "CANCEL" /\ lastOp.from = "MERGE" /\ "draw" \in enabled

\* C8 as stated: every completion callback dispatches an outcome event before
\* it writes IDLE and ends in IDLE, except onDrawDone with the continuation
\* flag, which leaves the mode as it was.
C8_EventThenIdle ==
    lastOp.op \in Callbacks =>
        IF lastOp.op = "onDrawDone" /\ lastOp.flag
        THEN mode = lastOp.from
        ELSE /\ mode = "IDLE"
             /\ \E e \in OutcomeEvents : \A i \in IdleWrites : e < i

\* The callbacks after which the handler goes on
StaysActive ==
    \/ lastOp.op = "onDrawDone" /\ lastOp.flag /\ lastOp.result # "redraw"
    \/ lastOp.op = "onInteraction" /\ lastOp.result = "array" /\ ~lastOp.flag

\* C8: a completion callback leaves the mode untouched when onDrawDone gets
\* the continuation flag with no result or with a new shape, and when
\* onInteraction gets shapes without isDone; in every other case it dispatches
\* an outcome event before it writes IDLE and ends in IDLE.
C8_EventThenIdleUnlessActive ==
    lastOp.op \in Callbacks =>
        IF StaysActive
        THEN mode = lastOp.from /\ ModeWrites = <<>>
        ELSE /\ mode = "IDLE"
             /\ \E e \in OutcomeEvents : \A i \in IdleWrites : e < i

\* the interaction handler reported shapes without isDone and the mode is
\* still INTERACT
C8_Witness ==
    /\ lastOp.op = "onInteraction" /\ lastOp.result = "array" /\ ~lastOp.flag
    /\ mode = "INTERACT"
    /\ OutcomeEvents # {}

\* C9: onDrawDone called in DRAW mode without the continuation flag leaves the
\* mode IDLE and has called controller.draw({enabled: false}); with a null
\* result it has dispatched canvas.canceled.
C9_DrawEndDisables ==
    (lastOp.op = "onDrawDone" /\ lastOp.from = "DRAW" /\ ~lastOp.flag) =>
        /\ mode = "IDLE"
        /\ \E i \in 1..Len(trace) : trace[i] = [k |-> "controller", n |-> "draw", id |-> NULL]
        /\ lastOp.result = "null" =>
              \E i \in 1..Len(trace) :
                  trace[i] = [k |-> "event", n |-> "canvas.canceled", id |-> NULL]

-----------------------------------------------------------------------------
(* Properties of the activation *)

\* C11: a setupObjects that has something to create, update or delete while an
\* element is active leaves that element active when its identifier is in the
\* incoming list, and leaves no element active when it is not.
C11_ActiveElementSurvives ==
    [][(lastOp'.op = "setup" /\ activeElement.clientID # NULL
            /\ HasChanges(Cur, objects')) =>
         IF activeElement.clientID \in IDsOf(objects')
         THEN activeElement'.clientID = activeElement.clientID
         ELSE activeElement'.clientID = NULL]_vars

\* The identifiers of the model, and how many DrawnStates exist for one: the
\* entry of the store and the elements nested in the skeletons of the store
AllIDs == TopIDs \cup {ElementID(i) : i \in 1..(MaxElements + 1)}
NestedIn(id) ==
    {<<top, i>> \in (DOMAIN drawnStates) \X (1..(MaxElements + 1)) :
        /\ i <= Len(drawnStates[top].elements)
        /\ drawnStates[top].elements[i].clientID = id}
DrawnCount(id) == (IF id \in DOMAIN drawnStates THEN 1 ELSE 0) + Cardinality(NestedIn(id))

\* C12: an identifier has a primitive in svgShapes if and only if exactly one
\* DrawnState exists for it, as an entry of the store or as an element of a
\* skeleton of the store.
C12_SceneIndexMatchesDrawnStates ==
    \A id \in AllIDs : id \in DOMAIN svgShapes <=> DrawnCount(id) = 1

\* The primitive of id carries an activation affordance in the index shapes
Affordances(shapes, id) ==
    /\ id \in DOMAIN shapes
    /\ \/ shapes[id].activated
       \/ shapes[id].draggableClass
       \/ shapes[id].dragHandlers
       \/ shapes[id].resizeHandlers
       \/ shapes[id].selectized

Events(tr) == {i \in 1..Len(tr) : tr[i].k = "event"}

\* C14: a SHAPE_ACTIVATED for an identifier that is not in the object list
\* changes neither the active element, nor svgShapes, nor the DrawnStates, nor
\* the mode, dispatches no event and throws nothing.
C14_ActivateAbsentIsNoOp ==
    [][(lastOp'.op = "activate" /\ ctrlActive'.clientID # NULL
            /\ ctrlActive'.clientID \notin IDsOf(objects)) =>
         /\ activeElement' = activeElement
         /\ svgShapes' = svgShapes
         /\ drawnStates' = drawnStates
         /\ mode' = mode
         /\ Events(trace') = {}
         /\ ~thrown']_vars

\* C15: a SHAPE_ACTIVATED for the element that is active already (same
\* clientID, same attributeID) changes nothing in the view and does nothing:
\* no affordance is installed again and no canvas.activated is dispatched.
C15_DoubleActivationIsNoOp ==
    [][(lastOp'.op = "activate" /\ activeElement.clientID # NULL
            /\ ctrlActive' = activeElement) =>
         /\ UNCHANGED <<activeElement, svgShapes, svgTexts, drawnStates, content, mode,
                        cursor>>
         /\ trace' = <<>>
         /\ ~thrown']_vars

\* the polygon, active and carrying its affordances, was activated again
C15_Witness ==
    /\ lastOp.op = "activate"
    /\ trace = <<>>
    /\ ctrlActive = activeElement
    /\ activeElement.clientID = PolygonID
    /\ Affordances(svgShapes, PolygonID)

\* What deactivate() can change of the view
Shown(s) == <<s.mode, s.cursor, s.activeElement, s.drawnStates, s.svgShapes, s.svgTexts,
              s.content>>

\* C16: deactivate() (the activation of the null element) leaves ActiveElement
\* equal to {clientID: null, attributeID: null}; with no element active it
\* changes nothing; and a second deactivate() after it leaves the state the
\* first one left.
C16_DeactivateIsIdempotent ==
    [][(lastOp'.op = "activate" /\ ctrlActive'.clientID = NULL) =>
         /\ activeElement' = [clientID |-> NULL, attributeID |-> NULL]
         /\ ~thrown'
         /\ activeElement.clientID = NULL => (Shown(Cur)' = Shown(Cur) /\ trace' = <<>>)
         /\ Shown(deactivate(Cur))' = Shown(Cur)']_vars

\* The canvas.activated events of a handler's log
Activated(tr) == {i \in 1..Len(tr) : tr[i].k = "event" /\ tr[i].n = "canvas.activated"}

\* C17: the activation of an object of the object list that is neither hidden
\* nor outside leaves the object with a label primitive and dispatches exactly
\* one canvas.activated, which carries the object; the drag and the resize
\* handlers are installed on its primitive unless the object is locked.
C17_ActivationEffects ==
    [][(/\ lastOp'.op = "activate"
        /\ ctrlActive'.clientID # NULL
        /\ ctrlActive'.clientID # activeElement.clientID
        /\ ctrlActive'.clientID \in IDsOf(objects)
        /\ ~Find(objects, ctrlActive'.clientID)[1].hidden
        /\ ~Find(objects, ctrlActive'.clientID)[1].outside) =>
         /\ ctrlActive'.clientID \in svgTexts'
         /\ Cardinality(Activated(trace')) = 1
         /\ \A i \in Activated(trace') : trace'[i].id = ctrlActive'.clientID
         /\ ~stateIsLocked(Find(objects, ctrlActive'.clientID)[1]) =>
                /\ ctrlActive'.clientID \in DOMAIN svgShapes'
                /\ svgShapes'[ctrlActive'.clientID].dragHandlers
                /\ svgShapes'[ctrlActive'.clientID].resizeHandlers]_vars


-----------------------------------------------------------------------------
(* Properties of the drag and resize gestures *)

\* A gesture that has started ends: the pointer is released, and the gesture
\* library then fires dragend or resizedone.
SpecModeFair ==
    /\ Init
    /\ [][NextMode]_vars
    /\ WF_vars(\E moved \in BOOLEAN : DragEnd(moved))
    /\ WF_vars(\E resized \in BOOLEAN : ResizeDone(resized, 0))

GestureStarts == {"dragstart", "resizestart"}
GestureMode == [dragstart |-> "DRAG", resizestart |-> "RESIZE"]

\* C18: the mode becomes DRAG or RESIZE only in the dragstart or resizestart
\* handler; the handler runs for the active element and only while the mode
\* is IDLE; and a gesture that has started is followed by the end of the
\* gesture with the mode IDLE.
C18_GestureModes ==
    /\ [][(mode' \in {"DRAG", "RESIZE"} /\ mode' # mode) =>
            /\ lastOp'.op \in GestureStarts
            /\ mode' = GestureMode[lastOp'.op]]_vars
    /\ [][lastOp'.op \in GestureStarts =>
            /\ mode = "IDLE"
            /\ gesture'.id = activeElement.clientID]_vars
    /\ (gesture # NoGesture) ~> ((gesture = NoGesture /\ mode = "IDLE") \/ faults = MaxFaults)


\* The primitives that the last handler removed or patched
Touched(tr) == {tr[i].id : i \in {j \in 1..Len(tr) : tr[j].k = "prim"
                                                     /\ tr[j].n \in {"delete", "patch"}}}

\* C19: when a reconciliation removes or patches the primitive that is being
\* dragged or resized (a plain shape, a skeleton or a skeleton element) while
\* the mode is DRAG or RESIZE, the mode is IDLE after it.
C19_InterruptionRestoresIdle ==
    [][(/\ lastOp'.op = "setup"
        /\ mode \in {"DRAG", "RESIZE"}
        /\ gesture # NoGesture
        /\ gesture.id \in Touched(trace')) => mode' = "IDLE"]_vars


-----------------------------------------------------------------------------
(* Properties of the failure notification *)

\* The exception that the upstream model reported in the last step
Reported == CHOOSE e \in Exceptions : ExceptionNames[e] = lastOp.result

\* C20: a DATA_FAILED notification dispatches canvas.error once, with the
\* exception of the model as its detail, and does nothing else: no call of the
\* controller or of a handler, and the mode, the active element, the
\* DrawnStates and the primitives stay as they are.
C20_DataFailedReportsOnce ==
    [][lastOp'.op = "DATA_FAILED" =>
         /\ trace' = <<[k |-> "event", n |-> "canvas.error", id |-> Reported']>>
         /\ UNCHANGED <<mode, cursor, activeElement, drawnStates, svgShapes, svgTexts,
                        content, enabled, gesture>>
         /\ ~thrown']_vars

\* the second exception was reported while the active skeleton was resized
C20_Witness ==
    /\ lastOp.op = "DATA_FAILED"
    /\ lastOp.result = ExceptionNames[2]
    /\ trace = <<[k |-> "event", n |-> "canvas.error", id |-> 2]>>
    /\ mode = "RESIZE"
    /\ activeElement.clientID = SkeletonID
    /\ SkeletonID \in DOMAIN drawnStates


-----------------------------------------------------------------------------
(* Properties of the creation of primitives *)

\* deactivate(), the first call of a reconciliation, finds what it reads
Deactivates ==
    activeElement.clientID = NULL
        \/ activeElement.clientID \in (DOMAIN svgShapes \cap DOMAIN drawnStates)

\* C21: an object of a shape type that the view cannot draw is skipped by
\* the creation: it gets no primitive and no DrawnState, no exception ends
\* the reconciliation, and the other objects of the list are drawn.
C21_UnsupportedIsSkipped ==
    [][(lastOp'.op = "setup" /\ Deactivates /\ UnknownID \in IDsOf(objects')) =>
         /\ UnknownID \notin DOMAIN svgShapes'
         /\ UnknownID \notin DOMAIN drawnStates'
         /\ ~thrown'
         /\ Drawable(objects') \subseteq DOMAIN svgShapes'
         /\ Drawable(objects') \subseteq DOMAIN drawnStates']_vars

\* the polygon and the skeleton were created in the pass that skipped the
\* object before them
C21_Witness ==
    /\ lastOp.op = "setup"
    /\ Len(objects) = 3
    /\ objects[1].clientID = UnknownID
    /\ trace[1] = [k |-> "prim", n |-> "create", id |-> PolygonID]
    /\ {PolygonID, SkeletonID} \subseteq DOMAIN drawnStates
    /\ UnknownID \notin DOMAIN svgShapes


-----------------------------------------------------------------------------
(* Properties of the notifications of the interaction families *)

FamilyMode == [DRAW |-> "DRAW", INTERACT |-> "INTERACT", MERGE |-> "MERGE",
               SPLIT |-> "SPLIT", GROUP |-> "GROUP"]
FamilyHandler == [DRAW |-> "draw", INTERACT |-> "interaction", MERGE |-> "merge",
                  SPLIT |-> "split", GROUP |-> "group"]

\* The entry calls of the last step: the handlers whose entry method was called
EntryCalls == {trace[i].n : i \in {j \in 1..Len(trace) :
                                      trace[j].k \in {"enable", "disable"}}}

\* C22: a DRAW, INTERACT, MERGE, SPLIT or GROUP notification that arrives
\* while the mode is the busy mode of another family does not call the entry
\* method of its own handler.
C22_BusyBlocksOtherFamilies ==
    (lastOp.op \in DOMAIN FamilyMode /\ lastOp.from \notin {"IDLE", FamilyMode[lastOp.op]})
        => FamilyHandler[lastOp.op] \notin EntryCalls


\* The entry call of each family: the handler whose entry method is called,
\* and for the drag of the canvas, which has no handler, the event that
\* starts it
Entry == [DRAW |-> [k |-> "enable", n |-> "draw", id |-> NULL],
          INTERACT |-> [k |-> "enable", n |-> "interaction", id |-> NULL],
          MERGE |-> [k |-> "enable", n |-> "merge", id |-> NULL],
          SPLIT |-> [k |-> "enable", n |-> "split", id |-> NULL],
          GROUP |-> [k |-> "enable", n |-> "group", id |-> NULL],
          SELECT_REGION |-> [k |-> "enable", n |-> "regionSelector", id |-> NULL],
          ZOOM_CANVAS |-> [k |-> "enable", n |-> "zoom", id |-> NULL],
          DRAG_CANVAS |-> [k |-> "event", n |-> "canvas.dragstart", id |-> NULL]]

\* C23: an enabling notification of DRAW, MERGE, SPLIT, GROUP, INTERACT,
\* SELECT_REGION, ZOOM_CANVAS or DRAG_CANVAS that arrives in IDLE leaves the
\* mode of that family and has made the entry call of the family.
C23_EnableFromIdle ==
    (lastOp.op \in DOMAIN Entry /\ lastOp.from = "IDLE" /\ lastOp.flag) =>
        /\ mode = lastOp.op
        /\ \E i \in 1..Len(trace) : trace[i] = Entry[lastOp.op]


-----------------------------------------------------------------------------
(* The geometry helpers, applied to inputs of their own *)

\* translateToCanvas (lines 113-116) with controller.geometry.offset = calc.offset
TranslateToCanvas ==
    /\ calc.fn \in {"input", "translateFromCanvas"}
    /\ calc.steps < 2
    /\ calc' = [calc EXCEPT !.fn = "translateToCanvas", !.steps = @ + 1,
                            !.out = toCanvas(calc.offset,
                                             IF calc.steps = 0 THEN calc.points ELSE @)]
    /\ UNCHANGED <<mode, cursor, objects, ctrlActive, activeElement, drawnStates,
                   svgShapes, svgTexts, content, drawHidden, enabled, gesture, trace,
                   thrown, faults, lost, lastOp>>

\* translateFromCanvas (lines 118-121) with controller.geometry.offset = calc.offset
TranslateFromCanvas ==
    /\ calc.fn \in {"input", "translateToCanvas"}
    /\ calc.steps < 2
    /\ calc' = [calc EXCEPT !.fn = "translateFromCanvas", !.steps = @ + 1,
                            !.out = fromCanvas(calc.offset,
                                              IF calc.steps = 0 THEN calc.points ELSE @)]
    /\ UNCHANGED <<mode, cursor, objects, ctrlActive, activeElement, drawnStates,
                   svgShapes, svgTexts, content, drawHidden, enabled, gesture, trace,
                   thrown, faults, lost, lastOp>>

\* translatePointsFromRotatedShape (lines 123-167) on calc.shape
TranslatePointsFromRotatedShape ==
    /\ calc.fn = "input"
    /\ LET done == translatePointsFromRotatedShape(calc.shape, calc.points, calc.broken)
       IN calc' = [calc EXCEPT !.fn = "translatePointsFromRotatedShape", !.steps = 1,
                               !.out = done.result, !.left = done.shape,
                               !.thrown = done.thrown]
    /\ UNCHANGED <<mode, cursor, objects, ctrlActive, activeElement, drawnStates,
                   svgShapes, svgTexts, content, drawHidden, enabled, gesture, trace,
                   thrown, faults, lost, lastOp>>

\* showDirection (lines 753-806): the angle of the arrow, in degrees, for a
\* shape whose points are points; the vector from the first point to the
\* second lies along an axis or is zero, so that its length and the arc
\* cosine are whole numbers.
showDirection(points) ==
    LET xAxis == [i |-> 1, j |-> 0]
        baseVector == [i |-> points[3] - points[1], j |-> points[4] - points[2]]
        abs(x) == IF x < 0 THEN 0 - x ELSE x
        vectorLength(v) == abs(v.i) + abs(v.j)
        scalarProduct(a, b) == a.i * b.i + a.j * b.j
        baseVectorLength == vectorLength(baseVector)
        cosinus == IF baseVectorLength # 0
                   THEN scalarProduct(xAxis, baseVector)
                            \div (vectorLength(xAxis) * baseVectorLength)
                   ELSE 0
        acos == CASE cosinus = 1 -> 0 [] cosinus = 0 -> 90 [] cosinus = -1 -> 180
        sign == IF baseVector.j > 0 THEN 1 ELSE IF baseVector.j < 0 THEN -1 ELSE 1
    IN acos * sign

\* showDirection of a selected polygon or polyline whose first point is
\* calc.points and whose second point is (x, y)
ShowDirection(x, y) ==
    /\ calc.fn = "input"
    /\ x = calc.points[1] \/ y = calc.points[2]
    /\ calc' = [calc EXCEPT !.fn = "showDirection", !.steps = 1,
                            !.points = @ \o <<x, y>>,
                            !.out = <<showDirection(calc.points \o <<x, y>>)>>]
    /\ UNCHANGED <<mode, cursor, objects, ctrlActive, activeElement, drawnStates,
                   svgShapes, svgTexts, content, drawHidden, enabled, gesture, trace,
                   thrown, faults, lost, lastOp>>

\* addSkeleton (lines 2622-2757): the circles of the elements and the wrapping
\* rectangle, whose data-xtl .. data-ybr are the extrema of the elements that
\* are not outside, widened by consts.SKELETON_RECT_MARGIN
skeletonGeometry(state) ==
    LET margin == 20
        centre(i) == translateToCanvas(state.elements[i].points)
        inside == {i \in 1..Len(state.elements) : ~state.elements[i].outside}
        min(S) == CHOOSE x \in S : \A y \in S : x <= y
        max(S) == CHOOSE x \in S : \A y \in S : x >= y
        xtl == min({centre(i)[1] : i \in inside}) - margin
        ytl == min({centre(i)[2] : i \in inside}) - margin
        xbr == max({centre(i)[1] : i \in inside}) + margin
        ybr == max({centre(i)[2] : i \in inside}) + margin
    IN [rotation |-> state.rotation,
        circles |-> [i \in 1..Len(state.elements) |->
                        [clientID |-> state.elements[i].clientID,
                         cx |-> centre(i)[1], cy |-> centre(i)[2]]],
        rect |-> [x |-> xtl, y |-> ytl, width |-> xbr - xtl, height |-> ybr - ytl,
                  xtl |-> xtl, ytl |-> ytl, xbr |-> xbr, ybr |-> ybr]]

\* skeleton.draggable: the timer task of the dragmove handler (lines 2815-2840),
\* after the drag has moved the wrapping rectangle to (x, y)
skeletonDragmove(skeleton, state, x, y) ==
    LET prevXtl == skeleton.rect.xtl
        prevYtl == skeleton.rect.ytl
        lock(child) == Find(state.elements, child.clientID)[1].lock
        center(child) == IF lock(child) THEN child
                         ELSE [child EXCEPT !.cx = Round(Round(@ - prevXtl) + x),
                                            !.cy = Round(Round(@ - prevYtl) + y)]
    IN [skeleton EXCEPT !.circles = [i \in DOMAIN @ |-> center(@[i])],
                        !.rect = [@ EXCEPT !.x = x, !.y = y, !.xtl = x, !.ytl = y,
                                           !.xbr = Round(x + skeleton.rect.width),
                                           !.ybr = Round(y + skeleton.rect.height)]]

\* A drag that moves the wrapping rectangle of the skeleton calc.state by
\* (dx, dy), and the timer task of its dragmove handler
SkeletonDragMove(dx, dy) ==
    /\ calc.fn \in {"skeleton", "dragmove"}
    /\ calc.steps < 2
    /\ calc' = [calc EXCEPT !.fn = "dragmove", !.steps = @ + 1, !.shape = calc.left,
                            !.left = skeletonDragmove(calc.left, calc.state,
                                                      calc.left.rect.x + dx,
                                                      calc.left.rect.y + dy)]
    /\ UNCHANGED <<mode, cursor, objects, ctrlActive, activeElement, drawnStates,
                   svgShapes, svgTexts, content, drawHidden, enabled, gesture, trace,
                   thrown, faults, lost, lastOp>>

\* The inputs: a geometry offset and an array of coordinates to translate, and
\* a primitive with its rotation to read the points from (broken: the primitive
\* is not rendered, so that getScreenCTM() returns null); and a skeleton as
\* addSkeleton has drawn it, each element locked or not, the last one outside
\* or not
InitGeometry ==
    /\ Constructed
    /\ calc \in
        {[fn |-> "input", offset |-> offset, points |-> <<x, y>>, shape |-> shape,
          broken |-> broken, steps |-> 0, out |-> <<>>, left |-> shape,
          thrown |-> FALSE] :
             offset \in {0, 100, 300}, x \in {0, 1, 10, 120}, y \in {0, 1, 10, 120},
             shape \in [rotation : {-90, 0, 45}], broken \in BOOLEAN}
        \cup {[fn |-> "skeleton", offset |-> geometry.offset, points |-> state.points,
                shape |-> skeletonGeometry(state), broken |-> FALSE, steps |-> 0,
                out |-> <<>>, left |-> skeletonGeometry(state), thrown |-> FALSE,
                state |-> state] :
                   state \in {[Skeleton(1, MaxElements) EXCEPT
                                   !.elements = [i \in DOMAIN @ |->
                                       [@[i] EXCEPT !.lock = lock[i],
                                                    !.outside = outside /\ i # 1]]] :
                               lock \in [1..MaxElements -> BOOLEAN],
                               outside \in BOOLEAN}}

NextGeometry ==
    \/ \E dx, dy \in {-5, 0, 10} : SkeletonDragMove(dx, dy)
    \/ TranslateToCanvas
    \/ TranslateFromCanvas
    \/ TranslatePointsFromRotatedShape
    \/ \E x, y \in {0, 1, 10, 120} : ShowDirection(x, y)

SpecGeometry == InitGeometry /\ [][NextGeometry]_vars

\* translateToCanvas and translateFromCanvas have been applied one after the
\* other.
RoundTripDone ==
    calc.steps = 2 /\ calc.fn \in {"translateToCanvas", "translateFromCanvas"}

\* Every sum of the round trip is a number: nothing is rounded away.
RoundTripIsExact ==
    \A i \in 1..Len(calc.points) :
        /\ calc.fn = "translateFromCanvas" =>
               Round(calc.points[i] + calc.offset) = calc.points[i] + calc.offset
        /\ calc.fn = "translateToCanvas" =>
               Round(calc.points[i] - calc.offset) = calc.points[i] - calc.offset

C25_RotationIsRestored ==
    calc.fn = "translatePointsFromRotatedShape" => calc.left.rotation = calc.shape.rotation

\* the mapping of the points of a primitive rotated by 45 degrees has thrown
C25_Witness ==
    /\ calc.fn = "translatePointsFromRotatedShape"
    /\ calc.thrown
    /\ calc.shape.rotation = 45
    /\ calc.left.rotation = 45


\* C26: every rotation reported in a canvas.edited event after a resize lies
\* in [0, 360), whatever rotation the gesture has left on the primitive.
C26_ReportedRotationInRange ==
    \A i \in 1..Len(trace) :
        (trace[i].k = "detail" /\ trace[i].n = "rotation") => trace[i].id \in 0..359

\* a resize that left the polygon rotated by -450 degrees has reported 270
C26_Witness ==
    /\ lastOp.op = "resizedone"
    /\ PolygonID \in DOMAIN svgShapes
    /\ svgShapes[PolygonID].rotation = -450
    /\ \E i \in 1..Len(trace) : trace[i] = [k |-> "detail", n |-> "rotation", id |-> 270]


\* C27: when the first two points of a polygon or polyline coincide, the
\* direction angle that showDirection computes is 0.
C27_ZeroVectorGivesZero ==
    (calc.fn = "showDirection" /\ calc.points[1] = calc.points[3]
                               /\ calc.points[2] = calc.points[4])
        => calc.out = <<0>>


\* C28: a drag-move that has moved the wrapping rectangle of a skeleton by
\* (dx, dy) has shifted the circle of every element by (dx, dy), and the
\* stored extrema of the rectangle are those of the circles of the elements
\* that are not outside, widened by the margin, after every drag-move.
C28_SkeletonDragShiftsAll ==
    calc.fn = "dragmove" =>
        LET dx == calc.left.rect.x - calc.shape.rect.x
            dy == calc.left.rect.y - calc.shape.rect.y
            circles == calc.left.circles
            inside == {i \in DOMAIN circles : ~calc.state.elements[i].outside}
        IN /\ \A i \in DOMAIN circles :
                  /\ circles[i].cx = calc.shape.circles[i].cx + dx
                  /\ circles[i].cy = calc.shape.circles[i].cy + dy
           /\ \A i \in inside :
                  /\ calc.left.rect.xtl + 20 <= circles[i].cx
                  /\ calc.left.rect.ytl + 20 <= circles[i].cy
                  /\ calc.left.rect.xbr - 20 >= circles[i].cx
                  /\ calc.left.rect.ybr - 20 >= circles[i].cy
           /\ \E i \in inside : calc.left.rect.xtl + 20 = circles[i].cx
           /\ \E i \in inside : calc.left.rect.ytl + 20 = circles[i].cy
           /\ \E i \in inside : calc.left.rect.xbr - 20 = circles[i].cx
           /\ \E i \in inside : calc.left.rect.ybr - 20 = circles[i].cy


\* C29: between two reconciliations the stored DrawnStates are not modified:
\* a step that is not a reconciliation of the object list, a completed drag or
\* resize included, leaves every DrawnState as it is.
C29_DrawnStateIsSnapshot ==
    [][lastOp'.op # "setup" => drawnStates' = drawnStates]_vars


\* The fields of a DrawnState that the claim names are those of the state.
CopyOf(drawnState, state) ==
    /\ drawnState.updated = state.updated
    /\ drawnState.frame = state.frame
    /\ drawnState.points = state.points
    /\ drawnState.rotation = state.rotation
    /\ drawnState.zOrder = state.zOrder
    /\ drawnState.hidden = state.hidden
    /\ drawnState.outside = state.outside
    /\ drawnState.occluded = state.occluded
    /\ drawnState.pinned = state.pinned
    /\ drawnState.lock = state.lock

\* C30: after a reconciliation the DrawnState of every object that was created
\* or patched in it has the updated, frame, points, rotation, zOrder, hidden,
\* outside, occluded, pinned and lock of the incoming state, and a later write
\* into the points array of an incoming state changes no DrawnState.
C30_DrawnStateIsFreshCopy ==
    [][/\ lastOp'.op = "setup" =>
              \A i \in 1..Len(objects') :
                  (\E j \in 1..Len(trace') :
                       /\ trace'[j].k = "prim"
                       /\ trace'[j].n \in {"create", "patch"}
                       /\ trace'[j].id = objects'[i].clientID)
                      => /\ objects'[i].clientID \in DOMAIN drawnStates'
                         /\ CopyOf(drawnStates'[objects'[i].clientID], objects'[i])
       /\ lastOp'.op = "mutate" => drawnStates' = drawnStates]_vars

\* the points of the polygon were written after the reconciliation that drew it
C30_Witness ==
    /\ lastOp.op = "mutate"
    /\ PolygonID \in DOMAIN drawnStates
    /\ \E i \in DOMAIN objects : /\ objects[i].clientID = PolygonID
                                 /\ objects[i].points # drawnStates[PolygonID].points


\* The positions of the trace where a primitive of id is deleted / created
Deletions(tr, id) == {j \in 1..Len(tr) : tr[j] = [k |-> "prim", n |-> "delete", id |-> id]}
Creations(tr, id) == {j \in 1..Len(tr) : tr[j] = [k |-> "prim", n |-> "create", id |-> id]}

\* C31: a reconciliation never patches an updated skeleton in place: it
\* deletes the primitive of the skeleton and of each of its drawn elements and
\* then creates the skeleton again, after the deletes of the removed objects
\* and the creations of the new ones.
C31_UpdatedSkeletonIsRedrawn ==
    [][(lastOp'.op = "setup" /\ ~thrown') =>
          \A i \in 1..Len(objects') :
              LET state == objects'[i]
                  id == state.clientID
              IN (/\ state.shapeType = "skeleton"
                  /\ id \in DOMAIN drawnStates
                  /\ NeedsUpdate(drawnStates[id], state)) =>
                     /\ Deletions(trace', id) # {}
                     /\ Creations(trace', id) # {}
                     /\ \A e \in IDsOf(drawnStates[id].elements) :
                            /\ Deletions(trace', e) # {}
                            /\ \A d \in Deletions(trace', e) :
                                   \A c \in Creations(trace', id) : d < c
                     /\ \A d \in Deletions(trace', id) :
                            \A c \in Creations(trace', id) : d < c
                     /\ \A j \in 1..Len(trace') :
                            (trace'[j].k = "prim" /\ trace'[j].id \in TopIDs \ {id})
                                => \A d \in Deletions(trace', id) : j < d]_vars


\* The positions of the trace where the view does what (deactivates or
\* activates a shape), and where it begins the patch of a primitive
ViewCalls(tr, what) == {j \in 1..Len(tr) : tr[j].k = "view" /\ tr[j].n = what}
Patches(tr) == {j \in 1..Len(tr) : tr[j].k = "prim" /\ tr[j].n = "patch"}

\* The updated objects of the list that are no skeletons and whose pinned flag
\* is not the one of their DrawnState
Repinned(drawn, states) ==
    {i \in 1..Len(states) : /\ states[i].shapeType # "skeleton"
                            /\ states[i].clientID \in DOMAIN drawn
                            /\ NeedsUpdate(drawn[states[i].clientID], states[i])
                            /\ drawn[states[i].clientID].pinned # states[i].pinned}

\* C32 (as stated): when an element is active and the pinned flag of an updated
\* object that is no skeleton differs from its DrawnState, the patch of that
\* object deactivates and then reactivates the active element: after the patch
\* has begun there is a deactivation, and an activation after it.
C32_PatchReactivates ==
    [][(/\ lastOp'.op = "setup"
        /\ ~thrown'
        /\ activeElement.clientID # NULL
        /\ Repinned(drawnStates, objects') # {}) =>
          \E p \in Patches(trace'), d \in ViewCalls(trace', "deactivate"),
             a \in ViewCalls(trace', "activateShape") : p < d /\ d < a]_vars

\* C32 (amended): in such a reconciliation the active element is deactivated
\* before the first patch and nothing is deactivated later, an activation comes
\* only after the last patch, and an object whose pinned flag has changed and
\* that is active after the pass has the drag handlers if and only if it is
\* not pinned.
C32_PassReactivates ==
    [][(/\ lastOp'.op = "setup"
        /\ ~thrown'
        /\ activeElement.clientID # NULL
        /\ Repinned(drawnStates, objects') # {}) =>
          /\ ViewCalls(trace', "deactivate") # {}
          /\ \A p \in Patches(trace') :
                 /\ \A d \in ViewCalls(trace', "deactivate") : d < p
                 /\ \A a \in ViewCalls(trace', "activateShape") : p < a
          /\ \A i \in Repinned(drawnStates, objects') :
                 LET id == objects'[i].clientID
                 IN (activeElement'.clientID = id /\ svgShapes'[id].activated)
                        => (svgShapes'[id].dragHandlers <=> ~objects'[i].pinned)]_vars

\* the active polygon has been pinned by a reconciliation and is active without
\* drag handlers after it
C32_Witness ==
    /\ lastOp.op = "setup"
    /\ ~thrown
    /\ activeElement.clientID = PolygonID
    /\ PolygonID \in DOMAIN drawnStates
    /\ PolygonID \in DOMAIN svgShapes
    /\ drawnStates[PolygonID].pinned
    /\ svgShapes[PolygonID].activated
    /\ ~svgShapes[PolygonID].dragHandlers
    /\ Patches(trace) # {}
    /\ ViewCalls(trace, "deactivate") # {}


\* C33: the primitives other than the one of the active element are in
\* non-decreasing z-order in the paint order (in every state, so after every
\* reconciliation and after every deactivation), and a primitive that carries
\* the activation mark is the one of the active element and is painted last.
C33_PaintOrder ==
    LET rest == Without(content, activeElement.clientID)
    IN /\ \A i, j \in 1..Len(rest) : i < j => ZOf(Cur, rest[i]) <= ZOf(Cur, rest[j])
       /\ \A i \in 1..Len(content) :
              svgShapes[content[i]].activated
                  => (content[i] = activeElement.clientID /\ i = Len(content))

\* the polygon was raised over the skeleton while it was active and is painted
\* below it again after its deactivation
C33_Witness ==
    /\ lastOp.op = "activate"
    /\ activeElement.clientID = NULL
    /\ content = <<PolygonID, SkeletonID>>
    /\ \E i \in 1..Len(trace) :
           trace[i] = [k |-> "view", n |-> "deactivate", id |-> PolygonID]


\* C34: whenever ActiveElement.clientID is not null, a primitive and a
\* DrawnState exist for that identifier, and no deactivation or reconciliation
\* has failed.
C34_ActiveElementIsDrawn ==
    /\ activeElement.clientID # NULL =>
           /\ activeElement.clientID \in DOMAIN svgShapes
           /\ activeElement.clientID \in DOMAIN drawnStates
    /\ lastOp.op \in {"setup", "activate"} => ~thrown

-----------------------------------------------------------------------------
(* The deferred completion of the gestures on a skeleton: the dragend and    *)
(* resizedone listeners of addSkeleton only start a timer (setTimeout), and  *)
(* the timer task does the work.  Other tasks run between the two.           *)

\* The gesture whose end has been fired and whose timer task is waiting
Deferred == [skeletondrag |-> "skeletondragend", skeletonresize |-> "skeletonresizedone",
             elementdrag |-> "elementdragend"]

\* The pointer is released: the gesture library fires dragend or resizedone, and
\* the listener, if it is still registered, calls setTimeout (lines 2842-2843,
\* 2943-2944, 3032-3033).
GestureReleased ==
    /\ faults < MaxFaults
    /\ gesture.kind \in DOMAIN Deferred
    /\ LET heard == CASE gesture.kind = "skeletondrag" -> Listens(gesture.id, "dragHandlers")
                      [] gesture.kind = "skeletonresize" -> Listens(gesture.id, "resizeHandlers")
                      [] gesture.kind = "elementdrag" -> ElementListens(gesture.id)
       IN Commit(IF heard
                 THEN [Cur EXCEPT !.gesture.kind = Deferred[@]]
                 ELSE [Cur EXCEPT !.gesture = NoGesture, !.unheard = TRUE])
    /\ lastOp' = Op("released", FALSE, "none", FALSE)

\* The timer task of a dragend or resizedone listener runs (lines 2843-2876,
\* 2944-2972, 3033-3073).  A timer whose primitive has been removed meanwhile
\* is not followed.
GestureTimer(done) ==
    /\ faults < MaxFaults
    /\ gesture.kind \in {Deferred[k] : k \in DOMAIN Deferred}
    /\ gesture.id \in DOMAIN svgShapes
    /\ Commit(CASE gesture.kind = "skeletondragend" -> skeletonDragend(Cur, gesture.id, done)
                [] gesture.kind = "skeletonresizedone" ->
                       skeletonResizedone(Cur, gesture.id, done)
                [] gesture.kind = "elementdragend" -> elementDragend(Cur, gesture.id, done))
    /\ lastOp' = Op("timer", FALSE, "none", done)

NextTimer ==
    \/ \E states \in Optional(Skeletons) : Setup(states)
    \/ \E element \in [clientID : {NULL, SkeletonID}, attributeID : {NULL}] : Activate(element)
    \/ SkeletonDragStart(SkeletonID)
    \/ SkeletonResizeStart(SkeletonID)
    \/ \E i \in 1..MaxElements : ElementDragStart(ElementID(i))
    \/ GestureReleased
    \/ \E done \in BOOLEAN : GestureTimer(done)
    \/ \E data \in Datas : NotifyMerge(data)
    \/ \E data \in DrawDatas : NotifyDraw(data)

SpecTimer == Init /\ [][NextTimer]_vars

\* C36: when a MERGE or DRAW notification has entered its mode after the
\* dragend or resizedone event of a skeleton gesture and the timer task of the
\* gesture runs next, the timer task leaves the mode as it is while the
\* handler of that mode is enabled.
C36_TimerKeepsLaterMode ==
    [][(/\ lastOp'.op = "timer"
        /\ lastOp.op \in {"MERGE", "DRAW"}
        /\ lastOp.flag
        /\ mode = lastOp.op
        /\ FamilyHandler[mode] \in enabled') => mode' = mode]_vars

-----------------------------------------------------------------------------
(* The redraw of a polygon that the upstream model hides and shows.          *)

NextDraw ==
    \/ \E states \in Optional({Polygon(u, 0, 1, hid) : u \in 1..MaxUpdated, hid \in BOOLEAN}) :
           Setup(states)
    \/ \E element \in SceneElements : Activate(element)
    \/ \E data \in DrawDatas : NotifyDraw(data)
    \/ \E data \in DrawResults, continueDraw \in BOOLEAN : DrawDone(data, continueDraw)
    \/ NotifyCancel

SpecDraw == Init /\ [][NextDraw]_vars

\* C37: in every reachable state the primitive of a drawn object carries the
\* hidden marker if and only if its DrawnState is hidden or outside, or the
\* object is flagged hidden because of a redraw.
C37_HiddenMarker ==
    \A id \in DOMAIN svgShapes \cap DOMAIN drawnStates :
        svgShapes[id].hidden <=> (\/ drawnStates[id].hidden
                                  \/ drawnStates[id].outside
                                  \/ id \in drawHidden)

\* the hidden polygon was patched in place to visible while its redraw was in
\* progress, and keeps the marker
C37_Witness ==
    /\ lastOp.op = "setup"
    /\ PolygonID \in drawHidden
    /\ PolygonID \in DOMAIN drawnStates
    /\ PolygonID \in DOMAIN svgShapes
    /\ ~drawnStates[PolygonID].hidden
    /\ svgShapes[PolygonID].hidden
    /\ \E j \in Patches(trace) : trace[j].id = PolygonID

\* C38: every OBJECTS_UPDATED notification emits exactly one canvas.setup event,
\* as the last effect of the notification, also when the reconciliation has
\* nothing to do; in GROUP mode the selection of the group handler is reset
\* before anything else, and in MERGE mode the selection of the merge handler is
\* re-applied after the reconciliation and right before canvas.setup.
C38_SetupEvent ==
    lastOp.op = "setup" =>
        /\ Cardinality({i \in Events(trace) : trace[i].n = "canvas.setup"}) = 1
        /\ trace[Len(trace)] = [k |-> "event", n |-> "canvas.setup", id |-> NULL]
        /\ lastOp.from = "GROUP" =>
               trace[1] = [k |-> "handler", n |-> "group.resetSelectedObjects", id |-> NULL]
        /\ mode = "MERGE" =>
               /\ Len(trace) >= 2
               /\ trace[Len(trace) - 1]
                      = [k |-> "handler", n |-> "merge.repeatSelection", id |-> NULL]

\* C39: a Shift+left-button press on a control point of the active polygon emits
\* canvas.editstart, sets the mode to EDIT, deactivates the active element and
\* then enables the edit handler, in that order; the completion callback of the
\* edit handler, also the one a CANCEL in EDIT mode brings about, emits exactly
\* one event, canvas.edited when state and points are given and canvas.canceled
\* otherwise, and then sets the mode to IDLE.
C39_EditProtocol ==
    /\ [][(/\ lastOp'.op = "mousedown"
           /\ lastOp'.result = "shift"
           /\ activeElement.clientID = PolygonID) =>
              /\ trace' = <<[k |-> "event", n |-> "canvas.editstart", id |-> NULL],
                            [k |-> "mode", n |-> "EDIT", id |-> NULL],
                            [k |-> "view", n |-> "deactivate", id |-> PolygonID],
                            [k |-> "enable", n |-> "edit", id |-> NULL]>>
              /\ mode' = "EDIT"
              /\ activeElement'.clientID = NULL
              /\ "edit" \in enabled']_vars
    /\ [][lastOp'.op = "onEditDone" =>
              /\ trace' = <<IF lastOp'.result = "result"
                            THEN [k |-> "event", n |-> "canvas.edited", id |-> PolygonID]
                            ELSE [k |-> "event", n |-> "canvas.canceled", id |-> NULL],
                            [k |-> "mode", n |-> "IDLE", id |-> NULL]>>
              /\ mode' = "IDLE"]_vars
    /\ [][(lastOp'.op = "CANCEL" /\ mode = "EDIT") =>
              /\ SelectSeq(trace', LAMBDA e : e.k \in {"event", "mode"})
                     = <<[k |-> "event", n |-> "canvas.canceled", id |-> NULL],
                         [k |-> "mode", n |-> "IDLE", id |-> NULL],
                         [k |-> "mode", n |-> "IDLE", id |-> NULL]>>
              /\ mode' = "IDLE"]_vars

\* the edit handler has reported new points for the polygon after a
\* Shift+left-button press had started it
C39_Witness ==
    /\ lastOp.op = "onEditDone"
    /\ lastOp.result = "result"
    /\ lastOp.from = "EDIT"
    /\ mode = "IDLE"

-----------------------------------------------------------------------------
(* The pointer over the canvas and over the circles of a skeleton.           *)

\* The mousemove listener of the content (lines 1214-1233); key is the
\* modifier key that is held
MouseMove(key) ==
    /\ faults < MaxFaults
    /\ Commit(IF mode # "IDLE" \/ key \in {"ctrl", "alt"} THEN Cur
              ELSE Dispatch(Cur, "canvas.moved", NULL))
    /\ lastOp' = Op("mousemove", FALSE, key, FALSE)

\* The mouseover listener of a circle of a drawn skeleton (lines 2669-2691);
\* state is the skeleton, element the element of the circle
MouseOver(clientID, key) ==
    /\ faults < MaxFaults
    /\ clientID \in DOMAIN svgShapes
    /\ svgShapes[clientID].parent \in DOMAIN drawnStates
    /\ \E i \in DOMAIN drawnStates[svgShapes[clientID].parent].elements :
           drawnStates[svgShapes[clientID].parent].elements[i].clientID = clientID
    /\ LET locked == drawnStates[svgShapes[clientID].parent].lock
       IN Commit(IF ~locked /\ key # "ctrl" /\ mode = "IDLE"
                 THEN Dispatch(Cur, "canvas.moved", clientID)
                 ELSE Cur)
    /\ lastOp' = Op("mouseover", FALSE, key, FALSE)

NextPointer ==
    \/ \E states \in Optional(Skeletons) : Setup(states)
    \/ \E data \in InteractionDatas : NotifyInteract(data)
    \/ \E data \in Datas : NotifyMerge(data)
    \/ NotifyCancel
    \/ \E key \in {"none", "ctrl", "alt"} : MouseMove(key)
    \/ \E i \in 1..(MaxElements + 1), key \in {"none", "ctrl", "alt"} :
           MouseOver(ElementID(i), key)

SpecPointer == Init /\ [][NextPointer]_vars

\* C40: a pointer move emits canvas.moved only when the mode is IDLE and
\* neither Ctrl nor Alt is held, and only while no gesture handler is enabled.
C40_MovedOnlyWhenIdle ==
    (/\ lastOp.op \in {"mousemove", "mouseover"}
     /\ \E i \in Events(trace) : trace[i].n = "canvas.moved") =>
        /\ lastOp.from = "IDLE"
        /\ lastOp.result = "none"
        /\ enabled = {}

=============================================================================
